---------------------------- MODULE Spec2Model ----------------------------
(***************************************************************************)
(* A model of the GCP Secret Manager provider (package secretmanager):     *)
(* the credential chain, the NewClient / Close life cycle guarded by the   *)
(* process-wide mutex useMu, and the SetSecret / GetSecret operations      *)
(* against the remote store; and of the ACR access token generator         *)
(* (package acr).                                                          *)
(*                                                                         *)
(* The module holds several specifications over one set of variables:      *)
(*   SpecCred    the credential chain as a function of its inputs          *)
(*   Spec        concurrent callers of NewClient and Close, every          *)
(*               constructed instance closed exactly once                  *)
(*   FairSpec    Spec with the fairness of the Go scheduler and mutex      *)
(*   SpecMisuse  Spec plus callers that Close an instance a second time    *)
(*   SpecRemote  one instance working on the remote store                  *)
(*   SpecPush    SpecRemote restricted to SetSecret calls                  *)
(*   SpecRead    GetSecret and GetSecretMap on a store of JSON documents   *)
(*   SpecFind    GetAllSecrets on a store, with a failing listing          *)
(*   SpecACR     one Generate of the ACR generator on every input          *)
(*   SpecRetry   SetSecret calls, with the history of each key             *)
(* A specification leaves the variables of the other parts unchanged.      *)
(***************************************************************************)
EXTENDS Integers, Sequences, FiniteSets, TLC

VARIABLES
    credIn,       \* the inputs of one credential resolution
    credOut,      \* its outcome, NoOutcome before it ran; for the ACR
                  \* generator, its run for each AAD token it may be issued
    useMu,        \* the process-wide mutex: TRUE when locked
    lockedBy,     \* history: the caller whose Lock holds useMu, Nobody if none
    crashed,      \* the process died (runtime fatal error or panic)
    sm,           \* the registered ProviderGCP object: its fields
    pc,           \* each caller's position
    call,         \* each caller's current (or last) NewClient call
    openClients,  \* secret-manager clients constructed and not closed
    openHelpers,  \* workload-identity helpers constructed and not closed
    closedOnce,   \* per caller: it has closed an instance before
    remote,       \* the remote store: secrets, labels, versions
    last          \* the last operation on the remote store and what it did

credVars   == <<credIn, credOut>>
lifeVars   == <<useMu, lockedBy, crashed, sm, pc, call, openClients,
                openHelpers, closedOnce>>
remoteVars == <<remote, last>>
vars       == <<credIn, credOut, useMu, lockedBy, crashed, sm, pc, call,
                openClients, openHelpers, closedOnce, remote, last>>

-----------------------------------------------------------------------------
(***************************************************************************)
(* Errors and other values.                                                *)
(***************************************************************************)
NoErr == "nil"
errGCPSMStore == "received invalid GCPSM SecretStore resource"
errMissingStoreSpec == "invalid: missing store spec"
errInvalidClusterStoreMissingSAKNamespace ==
    "invalid ClusterSecretStore: missing GCP SecretAccessKey Namespace"
errFetchSAKSecret == "could not fetch SecretAccessKey secret"
errMissingSAK == "missing SecretAccessKey"
errUnableProcessJSONCredentials == "failed to process the provided JSON credentials"
errUnableCreateGCPSMClient == "failed to create GCP secretmanager client"
errUnableGetCredentials == "unable to get credentials"
errWorkloadIdentityInit == "unable to initialize workload identity"
errClientClose == "unable to close SecretManager client"
errWorkloadIdentity == "workload identity error"
errDefaultTokenSource == "default credentials error"

SecretStoreKind == "SecretStore"
ClusterSecretStoreKind == "ClusterSecretStore"

\* A nil *string (SecretAccessKey.Namespace) and the empty string.
NilStr == "<nil>"
Empty == ""

\* Token sources: none (a nil oauth2.TokenSource), or one tagged by the
\* strategy that made it and, for the secret reference, the namespace the
\* credential was read from.
NoTS == [src |-> "none", ns |-> "none"]
SecretRefTS(ns) == [src |-> "secretRef", ns |-> ns]
WorkloadIdentityTS == [src |-> "workloadIdentity", ns |-> "none"]
DefaultTS == [src |-> "default", ns |-> "none"]

-----------------------------------------------------------------------------
(***************************************************************************)
(* The credential chain.                                                   *)
(*                                                                         *)
(* The inputs of one resolution: the store (the shape of its spec, its     *)
(* kind, its auth.secretRef), the caller's namespace, what the cluster     *)
(* holds in each namespace under the referenced name and key, and what the *)
(* workload-identity strategy and the ambient default answer.              *)
(***************************************************************************)
Namespaces == {"ns1", "ns2"}
CallerNamespace == "ns1"
CredSecretName == "gcp-creds"

\* What a namespace holds under CredSecretName: no such secret, a secret
\* without the referenced key, an empty value, bytes that are not
\* service-account JSON, or a service-account key.
Blobs == {"notfound", "nokey", "empty", "bad", "good"}

\* auth.secretRef: nil, or a selector with a name (possibly empty) and a
\* namespace pointer (possibly nil).
NoSecretRef == [set |-> FALSE, name |-> Empty, namespace |-> NilStr]
SecretRefs ==
    {NoSecretRef} \cup
    [set : {TRUE}, name : {Empty, CredSecretName},
     namespace : {NilStr} \cup Namespaces]

\* NewClient lets only a store with spec, provider and GCPSM section reach
\* the chain; serviceAccountTokenSource checks the spec again on its own.
StoreShapes == {"valid", "nilSpec", "nilGCPSM"}

CredInputs ==
    [shape : StoreShapes,
     kind : {SecretStoreKind, ClusterSecretStoreKind},
     sr : SecretRefs,
     namespace : {CallerNamespace},
     kube : [Namespaces -> Blobs],
     wi : {"none", "ts", "err"},
     def : {"ts", "err"}]

ValidCredInputs == {in \in CredInputs : in.shape = "valid"}

\* kube.Get(ctx, objectKey, credentialsSecret): an error for an empty name
\* or a secret that is not there.
kubeGet(in, key) ==
    IF key.name = Empty \/ in.kube[key.namespace] = "notfound"
    THEN [err |-> errFetchSAKSecret, data |-> "nokey"]
    ELSE [err |-> NoErr, data |-> in.kube[key.namespace]]

\* The outcome of one strategy: a token source, an error, and the reads
\* (kube.Get calls, by object key) it issued.
Outcome(ts, err, reads) == [ts |-> ts, err |-> err, reads |-> reads]

\* serviceAccountTokenSource without the cluster-store rule: a reference
\* without namespace silently reads the caller's namespace.
serviceAccountTokenSourceDefaultNs(in) ==
    IF in.shape # "valid"
    THEN Outcome(NoTS, errMissingStoreSpec, <<>>)
    ELSE IF ~in.sr.set
    THEN Outcome(NoTS, NoErr, <<>>)
    ELSE
      LET objectKey ==
              [name |-> in.sr.name,
               namespace |->
                   IF in.sr.name # Empty /\ in.sr.namespace # NilStr
                   THEN in.sr.namespace
                   ELSE in.namespace]
          got == kubeGet(in, objectKey)
      IN  IF got.err # NoErr
          THEN Outcome(NoTS, errFetchSAKSecret, <<objectKey>>)
          ELSE IF got.data \in {"nokey", "empty"}
          THEN Outcome(NoTS, errMissingSAK, <<objectKey>>)
          ELSE IF got.data = "bad"
          THEN Outcome(NoTS, errUnableProcessJSONCredentials, <<objectKey>>)
          ELSE Outcome(SecretRefTS(objectKey.namespace), NoErr, <<objectKey>>)

serviceAccountTokenSource(in) ==
    IF in.shape # "valid"
    THEN Outcome(NoTS, errMissingStoreSpec, <<>>)
    ELSE IF ~in.sr.set
    THEN Outcome(NoTS, NoErr, <<>>)
    ELSE
      LET credentialsSecretName == in.sr.name
          \* only ClusterStore is allowed to set namespace (and then it's required)
          missingNs == /\ in.kind = ClusterSecretStoreKind
                       /\ credentialsSecretName # Empty
                       /\ in.sr.namespace = NilStr
          objectKey ==
              [name |-> credentialsSecretName,
               namespace |->
                   IF /\ in.kind = ClusterSecretStoreKind
                      /\ credentialsSecretName # Empty
                      /\ in.sr.namespace # NilStr
                   THEN in.sr.namespace
                   ELSE in.namespace]
          got == kubeGet(in, objectKey)
      IN  IF missingNs
          THEN Outcome(NoTS, errInvalidClusterStoreMissingSAKNamespace, <<>>)
          ELSE IF got.err # NoErr
          THEN Outcome(NoTS, errFetchSAKSecret, <<objectKey>>)
          ELSE IF got.data \in {"nokey", "empty"}
          THEN Outcome(NoTS, errMissingSAK, <<objectKey>>)
          ELSE IF got.data = "bad"
          THEN Outcome(NoTS, errUnableProcessJSONCredentials, <<objectKey>>)
          ELSE Outcome(SecretRefTS(objectKey.namespace), NoErr, <<objectKey>>)

\* c.workloadIdentity.TokenSource: (nil, nil) when the store configures no
\* workload identity, else a token source or an error.
workloadIdentityTokenSource(in) ==
    CASE in.wi = "none" -> Outcome(NoTS, NoErr, <<>>)
      [] in.wi = "ts"   -> Outcome(WorkloadIdentityTS, NoErr, <<>>)
      [] OTHER          -> Outcome(NoTS, errWorkloadIdentity, <<>>)

\* google.DefaultTokenSource(ctx, CloudPlatformRole)
defaultTokenSource(in) ==
    IF in.def = "ts"
    THEN Outcome(DefaultTS, NoErr, <<>>)
    ELSE Outcome(NoTS, errDefaultTokenSource, <<>>)

Decisive(o) == o.ts # NoTS \/ o.err # NoErr

\* getTokenSource that looks only at the token source: a strategy that
\* failed falls through to the next one.
getTokenSourceFallThroughOnError(in) ==
    LET r1 == serviceAccountTokenSource(in)
        r2 == workloadIdentityTokenSource(in)
        r3 == defaultTokenSource(in)
    IN  IF r1.ts # NoTS
        THEN [ts |-> r1.ts, err |-> r1.err, reads |-> r1.reads,
              tried |-> <<"secretRef">>]
        ELSE IF r2.ts # NoTS
        THEN [ts |-> r2.ts, err |-> r2.err, reads |-> r1.reads,
              tried |-> <<"secretRef", "workloadIdentity">>]
        ELSE [ts |-> r3.ts, err |-> r3.err, reads |-> r1.reads,
              tried |-> <<"secretRef", "workloadIdentity", "default">>]

\* gClient.getTokenSource: the outcome, the reads issued, and the
\* strategies invoked, in order.
getTokenSource(in) ==
    LET r1 == serviceAccountTokenSource(in)
        r2 == workloadIdentityTokenSource(in)
        r3 == defaultTokenSource(in)
    IN  IF Decisive(r1)
        THEN [ts |-> r1.ts, err |-> r1.err, reads |-> r1.reads,
              tried |-> <<"secretRef">>]
        ELSE IF Decisive(r2)
        THEN [ts |-> r2.ts, err |-> r2.err, reads |-> r1.reads,
              tried |-> <<"secretRef", "workloadIdentity">>]
        ELSE [ts |-> r3.ts, err |-> r3.err, reads |-> r1.reads,
              tried |-> <<"secretRef", "workloadIdentity", "default">>]

NoOutcome == [ts |-> NoTS, err |-> NoErr, reads |-> <<>>, tried |-> <<>>]

\* The errors (NoErr among them) getTokenSource can return to NewClient.
TokenSourceErrors == {getTokenSource(in).err : in \in ValidCredInputs}

-----------------------------------------------------------------------------
(***************************************************************************)
(* The credential chain run on every input: SpecCred.                      *)
(***************************************************************************)
Resolved == credOut.tried # <<>>

\* One call of getTokenSource on the inputs drawn by the initial state.
Resolve ==
    /\ ~Resolved
    /\ credOut' = getTokenSource(credIn)
    /\ UNCHANGED <<credIn, lifeVars, remoteVars>>

Strategies == <<"secretRef", "workloadIdentity", "default">>

\* What each strategy answers on the inputs, by its name.
StrategyOutcome(name, in) ==
    CASE name = "secretRef"        -> serviceAccountTokenSource(in)
      [] name = "workloadIdentity" -> workloadIdentityTokenSource(in)
      [] OTHER                     -> defaultTokenSource(in)

\* The namespace a store's kind makes the chain read a named credential
\* secret from, when the reference is complete.
CompleteRef(in) ==
    /\ in.shape = "valid"
    /\ in.sr.set
    /\ in.sr.name # Empty
    /\ in.kind = ClusterSecretStoreKind => in.sr.namespace # NilStr
ExpectedNamespace(in) ==
    IF in.kind = ClusterSecretStoreKind THEN in.sr.namespace ELSE in.namespace

\* C8: credential chain priority.  getTokenSource invokes the strategies
\* in the order secret reference, workload identity, ambient default,
\* stops at the first one that yields a token source or an error and
\* returns exactly that strategy's outcome; every strategy invoked before
\* it yielded (nil, nil).  With a readable, well-formed credential secret
\* and a working workload identity the secret-reference token source is
\* returned; a credential blob that is missing, empty or unparseable ends
\* the resolution with an error, no later strategy being invoked.
C8_ChainPriority ==
    Resolved =>
      LET n == Len(credOut.tried)
          lastOutcome == StrategyOutcome(credOut.tried[n], credIn)
      IN  /\ n \in 1 .. 3
          /\ credOut.tried = SubSeq(Strategies, 1, n)
          /\ credOut.ts = lastOutcome.ts /\ credOut.err = lastOutcome.err
          /\ \A i \in 1 .. (n - 1) :
               ~Decisive(StrategyOutcome(Strategies[i], credIn))
          /\ n < 3 => Decisive(lastOutcome)
          /\ (credOut.ts = NoTS) # (credOut.err = NoErr)
          /\ (CompleteRef(credIn)
                /\ credIn.kube[ExpectedNamespace(credIn)] = "good"
                /\ credIn.wi = "ts") =>
               /\ credOut.ts = SecretRefTS(ExpectedNamespace(credIn))
               /\ credOut.err = NoErr
               /\ credOut.tried = <<"secretRef">>
          /\ (CompleteRef(credIn)
                /\ credIn.kube[ExpectedNamespace(credIn)]
                      \in {"nokey", "empty", "bad"}) =>
               /\ credOut.ts = NoTS
               /\ credOut.err \in {errMissingSAK, errUnableProcessJSONCredentials}
               /\ credOut.tried = <<"secretRef">>

\* A store with a good credential secret and a working workload identity
\* was resolved.
C8_Witness ==
    /\ Resolved
    /\ CompleteRef(credIn)
    /\ credIn.kube[ExpectedNamespace(credIn)] = "good"
    /\ credIn.wi = "ts"
    /\ credOut.ts.src = "secretRef"

\* C9: namespace scoping of the secret-reference strategy.  A
\* cluster-scoped store whose reference names a credential secret but no
\* namespace fails with errInvalidClusterStoreMissingSAKNamespace before
\* any secret is read; a cluster-scoped store whose reference names a
\* credential secret and a namespace reads it from that namespace; a
\* namespace-scoped store reads from the caller's namespace, whatever
\* namespace the reference gives.
C9_NamespaceScoping ==
    (Resolved /\ credIn.shape = "valid" /\ credIn.sr.set) =>
      /\ (credIn.kind = ClusterSecretStoreKind
            /\ credIn.sr.name # Empty /\ credIn.sr.namespace = NilStr) =>
           /\ credOut.err = errInvalidClusterStoreMissingSAKNamespace
           /\ credOut.ts = NoTS
           /\ credOut.reads = <<>>
      /\ (credIn.kind = ClusterSecretStoreKind
            /\ credIn.sr.name # Empty /\ credIn.sr.namespace # NilStr) =>
           /\ credOut.reads =
                <<[name |-> credIn.sr.name, namespace |-> credIn.sr.namespace]>>
           /\ credOut.ts # NoTS => credOut.ts.ns = credIn.sr.namespace
      /\ credIn.kind = SecretStoreKind =>
           /\ credOut.reads =
                <<[name |-> credIn.sr.name, namespace |-> credIn.namespace]>>
           /\ credOut.ts # NoTS => credOut.ts.ns = credIn.namespace

\* A namespace-scoped store whose reference gives another namespace, with
\* a good credential in both, was resolved from the caller's namespace.
C9_Witness ==
    /\ Resolved
    /\ credIn.kind = SecretStoreKind
    /\ credIn.sr.set /\ credIn.sr.name # Empty
    /\ credIn.sr.namespace \notin {NilStr, credIn.namespace}
    /\ credIn.kube = [n \in Namespaces |-> "good"]
    /\ credOut.ts = SecretRefTS(credIn.namespace)

-----------------------------------------------------------------------------
(***************************************************************************)
(* The life cycle: NewClient and Close under the mutex useMu.              *)
(*                                                                         *)
(* Callers are goroutines.  Every NewClient call is made on the one        *)
(* ProviderGCP object that init registers, so the callers share its        *)
(* fields.  A caller that got the instance from NewClient is "ready" and   *)
(* calls Close on it once.                                                 *)
(***************************************************************************)
NumCallers == 2

Callers == 1 .. NumCallers
Nobody == 0
\* A secret-manager client or a workload-identity helper is named by the
\* caller whose NewClient call made it.
NoClient == 0
NoHelper == 0

\* The store handed to NewClient: its spec, spec.Provider or
\* spec.Provider.GCPSM may be nil.
Stores == {"valid", "nilSpec", "nilProvider", "nilGCPSM"}

\* A caller's NewClient call: the events it went through, in order, the
\* error it returned, the instance holder it found when it started (until
\* that holder's Close has run); and the outcome of its Close.
NoCall ==
    [ev |-> <<>>, err |-> NoErr, blockedOn |-> Nobody,
     closeFail |-> <<FALSE, FALSE>>, closeErr |-> NoErr]

\* The caller, if any, that holds the constructed instance and the lock.
InstanceHolders ==
    {h \in Callers : pc[h] \in {"ready", "closing"} /\ lockedBy = h}
HolderOrNobody ==
    IF InstanceHolders = {} THEN Nobody ELSE CHOOSE h \in InstanceHolders : TRUE

Event(c, e) == [call EXCEPT ![c].ev = Append(@, e)]

\* NewClient, lines 175-179: the store is checked before the lock is taken.
NewClientStart(c) ==
    /\ ~crashed
    /\ pc[c] = "idle"
    /\ \E store \in Stores :
         IF store # "valid"
         THEN /\ call' = [call EXCEPT ![c] =
                      [NoCall EXCEPT !.err = errGCPSMStore,
                                     !.blockedOn = HolderOrNobody,
                                     !.ev = <<"return">>]]
              /\ pc' = pc
         ELSE /\ call' = [call EXCEPT ![c] =
                      [NoCall EXCEPT !.blockedOn = HolderOrNobody]]
              /\ pc' = [pc EXCEPT ![c] = "lock"]
    /\ UNCHANGED <<useMu, lockedBy, crashed, sm, openClients, openHelpers,
                   closedOnce>>
    /\ UNCHANGED <<credVars, remoteVars>>

\* useMu.Lock() that does not wait for the mutex.
LockNoWait(c) ==
    /\ ~crashed
    /\ pc[c] = "lock"
    /\ useMu' = TRUE
    /\ lockedBy' = c
    /\ call' = Event(c, "Lock")
    /\ pc' = [pc EXCEPT ![c] = "wi"]
    /\ UNCHANGED <<crashed, sm, openClients, openHelpers, closedOnce>>
    /\ UNCHANGED <<credVars, remoteVars>>

\* useMu.Lock(), line 181: blocks while the mutex is locked.
Lock(c) ==
    /\ ~crashed
    /\ pc[c] = "lock"
    /\ ~useMu
    /\ useMu' = TRUE
    /\ lockedBy' = c
    /\ call' = Event(c, "Lock")
    /\ pc' = [pc EXCEPT ![c] = "wi"]
    /\ UNCHANGED <<crashed, sm, openClients, openHelpers, closedOnce>>
    /\ UNCHANGED <<credVars, remoteVars>>

\* useMu.Unlock(): a sync.Mutex does not know who locked it, and
\* unlocking an unlocked one is a fatal error.
Unlocked ==
    /\ useMu' = FALSE
    /\ lockedBy' = Nobody
    /\ crashed' = ~useMu

\* newWorkloadIdentity and the gClient, lines 182-203.
NewWorkloadIdentity(c) ==
    /\ ~crashed
    /\ pc[c] = "wi"
    /\ \E ok \in BOOLEAN :
         IF ~ok
         THEN /\ Unlocked
              /\ call' = [call EXCEPT
                    ![c].ev = @ \o <<"newWorkloadIdentityFailed", "Unlock", "return">>,
                    ![c].err = errWorkloadIdentityInit]
              /\ pc' = [pc EXCEPT ![c] = "idle"]
              /\ UNCHANGED <<sm, openHelpers>>
         ELSE /\ call' = Event(c, "newWorkloadIdentity")
              /\ sm' = [sm EXCEPT !.gClient = c]
              /\ openHelpers' = openHelpers \cup {c}
              /\ pc' = [pc EXCEPT ![c] = "ts"]
              /\ UNCHANGED <<useMu, lockedBy, crashed>>
    /\ UNCHANGED <<openClients, closedOnce>>
    /\ UNCHANGED <<credVars, remoteVars>>

\* cliStore.getTokenSource, lines 205-209.
ResolveTokenSource(c) ==
    /\ ~crashed
    /\ pc[c] = "ts"
    /\ \E err \in TokenSourceErrors :
         IF err # NoErr
         THEN /\ Unlocked
              /\ call' = [call EXCEPT
                    ![c].ev = @ \o <<"getTokenSourceFailed", "Unlock">>,
                    ![c].err = errUnableCreateGCPSMClient]
              /\ pc' = [pc EXCEPT ![c] = "defer"]
         ELSE /\ call' = Event(c, "getTokenSource")
              /\ pc' = [pc EXCEPT ![c] = "token"]
              /\ UNCHANGED <<useMu, lockedBy, crashed>>
    /\ UNCHANGED <<sm, openClients, openHelpers, closedOnce>>
    /\ UNCHANGED <<credVars, remoteVars>>

\* ts.Token() whose failure path forgets the mutex.
ValidateTokenKeepLock(c) ==
    /\ ~crashed
    /\ pc[c] = "token"
    /\ \E ok \in BOOLEAN :
         IF ~ok
         THEN /\ call' = [call EXCEPT
                    ![c].ev = Append(@, "TokenFailed"),
                    ![c].err = errUnableGetCredentials]
              /\ pc' = [pc EXCEPT ![c] = "defer"]
         ELSE /\ call' = Event(c, "Token")
              /\ pc' = [pc EXCEPT ![c] = "sdk"]
    /\ UNCHANGED <<useMu, lockedBy, crashed>>
    /\ UNCHANGED <<sm, openClients, openHelpers, closedOnce>>
    /\ UNCHANGED <<credVars, remoteVars>>

\* ts.Token() whose failure is not looked at.
ValidateTokenIgnored(c) ==
    /\ ~crashed
    /\ pc[c] = "token"
    /\ \E ok \in BOOLEAN :
         /\ call' = Event(c, IF ok THEN "Token" ELSE "TokenFailed")
         /\ pc' = [pc EXCEPT ![c] = "sdk"]
    /\ UNCHANGED <<useMu, lockedBy, crashed>>
    /\ UNCHANGED <<sm, openClients, openHelpers, closedOnce>>
    /\ UNCHANGED <<credVars, remoteVars>>

\* ts.Token(): check if we can get credentials, lines 211-216.
ValidateToken(c) ==
    /\ ~crashed
    /\ pc[c] = "token"
    /\ \E ok \in BOOLEAN :
         IF ~ok
         THEN /\ Unlocked
              /\ call' = [call EXCEPT
                    ![c].ev = @ \o <<"TokenFailed", "Unlock">>,
                    ![c].err = errUnableGetCredentials]
              /\ pc' = [pc EXCEPT ![c] = "defer"]
         ELSE /\ call' = Event(c, "Token")
              /\ pc' = [pc EXCEPT ![c] = "sdk"]
              /\ UNCHANGED <<useMu, lockedBy, crashed>>
    /\ UNCHANGED <<sm, openClients, openHelpers, closedOnce>>
    /\ UNCHANGED <<credVars, remoteVars>>

\* secretmanager.NewClient and the store into the object, lines 218-223.
ConstructClient(c) ==
    /\ ~crashed
    /\ pc[c] = "sdk"
    /\ \E ok \in BOOLEAN :
         IF ~ok
         THEN /\ Unlocked
              /\ call' = [call EXCEPT
                    ![c].ev = @ \o <<"NewClientFailed", "Unlock">>,
                    ![c].err = errUnableCreateGCPSMClient]
              /\ UNCHANGED <<sm, openClients>>
         ELSE /\ call' = [call EXCEPT ![c].ev = @ \o <<"NewClient", "store">>]
              /\ sm' = [sm EXCEPT !.SecretManagerClient = c]
              /\ openClients' = openClients \cup {c}
              /\ UNCHANGED <<useMu, lockedBy, crashed>>
    /\ pc' = [pc EXCEPT ![c] = "defer"]
    /\ UNCHANGED <<openHelpers, closedOnce>>
    /\ UNCHANGED <<credVars, remoteVars>>

\* The deferred function, lines 196-201, and the return: it reads the
\* object's fields as they are when NewClient returns, which on an error
\* path is after the mutex was released.
Deferred(c) ==
    /\ ~crashed
    /\ pc[c] = "defer"
    /\ LET closes == sm.SecretManagerClient = NoClient
       IN  /\ openHelpers' =
                 IF closes THEN openHelpers \ {sm.gClient} ELSE openHelpers
           /\ call' = [call EXCEPT ![c].ev =
                 IF closes THEN @ \o <<"closeHelper", "return">>
                           ELSE Append(@, "return")]
    /\ pc' = [pc EXCEPT ![c] = IF call[c].err = NoErr THEN "ready" ELSE "idle"]
    /\ UNCHANGED <<useMu, lockedBy, crashed, sm, openClients, closedOnce>>
    /\ UNCHANGED <<credVars, remoteVars>>

\* Close, lines 502-505: both closes, the second error overwriting the
\* first.  Closing a client or helper that is already closed fails.
CloseBody(c) ==
    \E cfail \in BOOLEAN, hfail \in BOOLEAN :
      LET cl == sm.SecretManagerClient
          h == sm.gClient
          clientFailed == cfail \/ cl \notin openClients
          helperFailed == h # NoHelper /\ (hfail \/ h \notin openHelpers)
          err == IF h # NoHelper
                 THEN (IF helperFailed THEN errClientClose ELSE NoErr)
                 ELSE (IF clientFailed THEN errClientClose ELSE NoErr)
      IN  /\ openClients' = openClients \ {cl}
          /\ openHelpers' = openHelpers \ {h}
          /\ call' = [call EXCEPT ![c].closeFail = <<clientFailed, helperFailed>>,
                                  ![c].closeErr = err]

\* Close called by the caller that holds the instance.
CloseClients(c) ==
    /\ ~crashed
    /\ pc[c] = "ready"
    /\ CloseBody(c)
    /\ pc' = [pc EXCEPT ![c] = "closing"]
    /\ UNCHANGED <<useMu, lockedBy, crashed, sm, closedOnce>>
    /\ UNCHANGED <<credVars, remoteVars>>

\* Close that returns a close error before it reaches the unlock.
CloseUnlockOnSuccessOnly(c) ==
    /\ ~crashed
    /\ pc[c] = "closing"
    /\ IF call[c].closeErr = NoErr
       THEN /\ Unlocked
            /\ call' = [d \in Callers |->
                          IF d = c THEN NoCall
                          ELSE IF call[d].blockedOn = lockedBy
                          THEN [call[d] EXCEPT !.blockedOn = Nobody]
                          ELSE call[d]]
       ELSE /\ call' = [call EXCEPT ![c] = NoCall]
            /\ UNCHANGED <<useMu, lockedBy, crashed>>
    /\ pc' = [pc EXCEPT ![c] = "idle"]
    /\ UNCHANGED <<sm, openClients, openHelpers, closedOnce>>
    /\ UNCHANGED <<credVars, remoteVars>>

\* Close, lines 506-510: the unlock and the return.
CloseUnlock(c) ==
    /\ ~crashed
    /\ pc[c] = "closing"
    /\ Unlocked
    /\ call' = [d \in Callers |->
                  IF d = c THEN NoCall
                  ELSE IF call[d].blockedOn = lockedBy
                  THEN [call[d] EXCEPT !.blockedOn = Nobody]
                  ELSE call[d]]
    /\ pc' = [pc EXCEPT ![c] = "idle"]
    /\ UNCHANGED <<sm, openClients, openHelpers, closedOnce>>
    /\ UNCHANGED <<credVars, remoteVars>>

\* The same step, remembering that the caller has closed an instance.
CloseUnlockRemembered(c) ==
    /\ ~crashed
    /\ pc[c] = "closing"
    /\ Unlocked
    /\ call' = [call EXCEPT ![c] = NoCall]
    /\ closedOnce' = [closedOnce EXCEPT ![c] = TRUE]
    /\ pc' = [pc EXCEPT ![c] = "idle"]
    /\ UNCHANGED <<sm, openClients, openHelpers>>
    /\ UNCHANGED <<credVars, remoteVars>>

\* Close called once more on an instance the caller has already closed.
RepeatedClose(c) ==
    /\ ~crashed
    /\ pc[c] = "idle"
    /\ closedOnce[c]
    /\ CloseBody(c)
    /\ pc' = [pc EXCEPT ![c] = "closing"]
    /\ UNCHANGED <<useMu, lockedBy, crashed, sm, closedOnce>>
    /\ UNCHANGED <<credVars, remoteVars>>

InitCredIdle ==
    /\ credIn = CHOOSE in \in ValidCredInputs : TRUE
    /\ credOut = NoOutcome

InitLife ==
    /\ useMu = FALSE
    /\ lockedBy = Nobody
    /\ crashed = FALSE
    /\ sm = [SecretManagerClient |-> NoClient, gClient |-> NoHelper]
    /\ pc = [c \in Callers |-> "idle"]
    /\ call = [c \in Callers |-> NoCall]
    /\ openClients = {}
    /\ openHelpers = {}
    /\ closedOnce = [c \in Callers |-> FALSE]

InitRemoteIdle == remote = <<>> /\ last = <<>>

Init == InitCredIdle /\ InitLife /\ InitRemoteIdle

InitCred ==
    /\ credIn \in CredInputs
    /\ credOut = NoOutcome
    /\ InitLife
    /\ InitRemoteIdle

SpecCred == InitCred /\ [][Resolve]_vars

Next ==
    \E c \in Callers :
        \/ NewClientStart(c)
        \/ Lock(c)
        \/ NewWorkloadIdentity(c)
        \/ ResolveTokenSource(c)
        \/ ValidateToken(c)
        \/ ConstructClient(c)
        \/ Deferred(c)
        \/ CloseClients(c)
        \/ CloseUnlock(c)

Spec == Init /\ [][Next]_vars

NextMisuse ==
    \E c \in Callers :
        \/ NewClientStart(c)
        \/ Lock(c)
        \/ NewWorkloadIdentity(c)
        \/ ResolveTokenSource(c)
        \/ ValidateToken(c)
        \/ ConstructClient(c)
        \/ Deferred(c)
        \/ CloseClients(c)
        \/ CloseUnlockRemembered(c)
        \/ RepeatedClose(c)

SpecMisuse == Init /\ [][NextMisuse]_vars

\* The scheduling the runtime gives: a goroutine that can take a step of
\* its call takes it; a goroutine waiting in useMu.Lock() gets the mutex
\* if it is released again and again (sync.Mutex hands a starving waiter
\* the mutex); the holder of an instance does call Close.  Nothing makes a
\* caller start a new NewClient.
Progress(c) ==
    \/ NewWorkloadIdentity(c)
    \/ ResolveTokenSource(c)
    \/ ValidateToken(c)
    \/ ConstructClient(c)
    \/ Deferred(c)
    \/ CloseClients(c)
    \/ CloseUnlock(c)

Fairness ==
    \A c \in Callers : SF_vars(Lock(c)) /\ WF_vars(Progress(c))

FairSpec == Init /\ [][Next]_vars /\ Fairness

-----------------------------------------------------------------------------
(***************************************************************************)
(* The claims about the life cycle.                                        *)
(***************************************************************************)
HasEvent(c, e) == \E i \in DOMAIN call[c].ev : call[c].ev[i] = e
Count(c, e) == Cardinality({i \in DOMAIN call[c].ev : call[c].ev[i] = e})

\* Between its Lock and its Unlock, by the caller's position alone.
InLockedRegion(c) ==
    \/ pc[c] \in {"wi", "ts", "token", "sdk", "ready", "closing"}
    \/ pc[c] = "defer" /\ call[c].err = NoErr

\* C1: single flight.  In every reachable state of any interleaving of
\* NewClient and Close calls, every constructed instance being closed
\* exactly once, at most one caller is between its Lock and its Unlock,
\* at most one secret-manager client is open, and the caller whose client
\* is open holds useMu.
C1_SingleFlight ==
    /\ Cardinality({c \in Callers : InLockedRegion(c)}) <= 1
    /\ Cardinality(openClients) <= 1
    /\ \A c \in openClients : useMu /\ lockedBy = c /\ InLockedRegion(c)
    /\ \A c \in Callers : InLockedRegion(c) => useMu /\ lockedBy = c

\* One caller holds the instance with its client open while another
\* waits in useMu.Lock().
C1_Witness ==
    \E c, d \in Callers :
        /\ c # d
        /\ pc[c] = "ready" /\ c \in openClients
        /\ pc[d] = "lock"

\* The original statement of C2, its safety half: an attempt that started
\* while another caller held the instance has, until that holder's Close
\* has run, neither resolved credentials, nor constructed a client, nor
\* returned.
C2_Original ==
    \A c \in Callers :
        call[c].blockedOn # Nobody => pc[c] = "lock" /\ call[c].ev = <<>>

\* C2 (amended): serialization of construction.  An attempt on a store
\* with a GCPSM section that started while another caller held the
\* instance waits in useMu.Lock(), with nothing done, until that holder's
\* Close has run (an attempt on a store without one returns
\* errGCPSMStore at once, never touching the lock); the step that ends a
\* Close releases the lock whether or not closing reported an error; and
\* under the fair scheduling of Fairness an attempt that waits while the
\* holder is in Close eventually acquires the lock and returns.
C2_Serialized ==
    /\ [](\A c \in Callers :
            call[c].blockedOn # Nobody =>
                \/ pc[c] = "lock" /\ call[c].ev = <<>>
                \/ /\ pc[c] = "idle"
                   /\ call[c].err = errGCPSMStore
                   /\ call[c].ev = <<"return">>)
    /\ [][\A h \in Callers :
            (pc[h] = "closing" /\ pc'[h] # "closing") =>
                (~useMu' /\ pc'[h] = "idle")]_vars
    /\ \A c \in Callers :
         (pc[c] = "lock" /\ \E h \in Callers : pc[h] = "closing")
            ~> (HasEvent(c, "Lock") /\ HasEvent(c, "return"))

\* An attempt waits on a holder whose Close reported an error and has
\* not unlocked yet.
C2_Witness ==
    \E c, h \in Callers :
        /\ pc[c] = "lock" /\ call[c].blockedOn = h
        /\ pc[h] = "closing" /\ call[h].closeErr # NoErr

\* C3 as stated: a Close call by a caller that is not the lock holder
\* (a repeated Close of an instance already closed) never releases a lock
\* that another caller's instance holds.
C3_ReleaseOnlyByHolder ==
    [][\A c \in Callers :
         (pc[c] = "closing" /\ pc'[c] # "closing"
            /\ lockedBy # Nobody /\ lockedBy # c)
         => (useMu' /\ lockedBy' = lockedBy)]_vars

\* C4: every NewClient call that returns an error leaves the lock not
\* held by that call.  A failure of workload-identity initialisation, of
\* token-source resolution, of token validation or of the SDK client
\* creation comes after the Lock and is followed by exactly one Unlock
\* before the return; a store without spec, provider or GCPSM section
\* fails without a Lock.
C4_ErrorReleasesLock ==
    \A c \in Callers :
        (call[c].err # NoErr /\ pc[c] \in {"defer", "idle"}) =>
            /\ lockedBy # c
            /\ Count(c, "Lock") = Count(c, "Unlock")
            /\ call[c].err = errGCPSMStore <=> ~HasEvent(c, "Lock")
            /\ call[c].err \in {errGCPSMStore, errWorkloadIdentityInit,
                                errUnableCreateGCPSMClient,
                                errUnableGetCredentials}

\* A call failed after it took the lock, has returned, and the other
\* caller has the lock since.
C4_Witness ==
    \E c, d \in Callers :
        /\ pc[c] = "idle" /\ call[c].err = errUnableCreateGCPSMClient
        /\ HasEvent(c, "NewClientFailed")
        /\ lockedBy = d /\ d # c

\* C5: eager validation.  The transport client is constructed only after
\* a token value was requested and obtained; a call whose token request
\* failed returns errUnableGetCredentials, has constructed and stored no
\* transport client, and has released the lock.
C5_EagerValidation ==
    \A c \in Callers :
        /\ \A j \in DOMAIN call[c].ev :
             call[c].ev[j] \in {"NewClient", "NewClientFailed", "store"} =>
                 \E i \in 1 .. (j - 1) : call[c].ev[i] = "Token"
        /\ HasEvent(c, "TokenFailed") =>
             /\ call[c].err = errUnableGetCredentials
             /\ ~HasEvent(c, "NewClient")
             /\ ~HasEvent(c, "NewClientFailed")
             /\ ~HasEvent(c, "store")
             /\ c \notin openClients
             /\ lockedBy # c
             /\ pc[c] \in {"defer", "idle"}

\* A call whose token request failed has returned.
C5_Witness ==
    \E c \in Callers :
        /\ pc[c] = "idle"
        /\ HasEvent(c, "TokenFailed") /\ HasEvent(c, "return")

-----------------------------------------------------------------------------
(***************************************************************************)
(* The remote store behind GoogleSecretManagerClient.  A secret has a      *)
(* label set and an append-only sequence of version payloads.  Strings     *)
(* that the code inspects by prefix are sequences of characters.           *)
(***************************************************************************)
K1 == <<"a", "/", "x">>
K2 == <<"b", "a", "/", "x">>
Keys == {K1, K2}
KeyOrder == <<K1, K2>>
Payloads == {"p1", "p2"}
MaxVersions == 2

ManagedBy == <<"managed-by", "external-secrets">>
LabelSets == {{}, {<<"managed-by", "someone-else">>}, {ManagedBy}}
Absent == [exists |-> FALSE, labels |-> {}, versions |-> <<>>]
VersionSeqs == UNION {[1 .. n -> Payloads] : n \in 0 .. MaxVersions}
Entries == {Absent} \cup [exists : {TRUE}, labels : LabelSets, versions : VersionSeqs]
RemoteStates == [Keys -> Entries]

\* Errors of the remote calls: an APIError with code NotFound, an APIError
\* with another code, and an error that is no APIError.
NotFound == "NotFound"
PermissionDenied == "PermissionDenied"
DeadlineExceeded == "context deadline exceeded"
IsAPIError(e) == e \in {NotFound, PermissionDenied}
NilPtr == [nil |-> TRUE]

\* How one remote call of an operation goes wrong: with an APIError, with
\* a plain error, or (a version read) answered without a payload.
NoFault == [rpc |-> "none", kind |-> "none"]
Fault(rpc, kind) == [rpc |-> rpc, kind |-> kind]
WriteFaults ==
    {NoFault, Fault("AccessSecretVersion", "absent")}
      \cup {Fault(rpc, kind) :
              rpc \in {"GetSecret", "CreateSecret", "AccessSecretVersion",
                       "AddSecretVersion"},
              kind \in {"api", "plain"}}
ReadFaults ==
    {NoFault, Fault("AccessSecretVersion", "api"),
     Fault("AccessSecretVersion", "absent")}
FindFaults ==
    {NoFault, Fault("ListSecrets", "api"), Fault("AccessSecretVersion", "api")}
FaultOf(f, rpc) == IF f.rpc = rpc THEN f.kind ELSE "none"
FaultErr(kind) == IF kind = "api" THEN PermissionDenied ELSE DeadlineExceeded

\* The project as the store names it and as the remote API returns it.
ProjectID == "p1"
ProjectNumber == "1"
FullName(k) == <<"projects", "/", ProjectNumber, "/", "secrets", "/">> \o k

HasPrefix(s, pre) ==
    /\ Len(pre) <= Len(s)
    /\ SubSeq(s, 1, Len(pre)) = pre
Contains(s, sub) ==
    \E i \in 0 .. (Len(s) - Len(sub)) : SubSeq(s, i + 1, i + Len(sub)) = sub
TrimPrefix(s, pre) ==
    IF HasPrefix(s, pre) THEN SubSeq(s, Len(pre) + 1, Len(s)) ELSE s

Rpc(m, k, err) == [m |-> m, key |-> k, err |-> err]

\* GoogleSecretManagerClient.GetSecret
RemoteGetSecret(r, k, fault) ==
    IF fault # "none"
    THEN [err |-> FaultErr(fault), secret |-> NilPtr, remote |-> r]
    ELSE IF ~r[k].exists
    THEN [err |-> NotFound, secret |-> NilPtr, remote |-> r]
    ELSE [err |-> NoErr, secret |-> r[k], remote |-> r]

\* GoogleSecretManagerClient.CreateSecret
RemoteCreateSecret(r, k, labels, fault) ==
    IF fault # "none"
    THEN [err |-> FaultErr(fault), secret |-> NilPtr, remote |-> r]
    ELSE IF r[k].exists
    THEN [err |-> "AlreadyExists", secret |-> NilPtr, remote |-> r]
    ELSE LET created == [exists |-> TRUE, labels |-> labels, versions |-> <<>>]
         IN  [err |-> NoErr, secret |-> created,
              remote |-> [r EXCEPT ![k] = created]]

\* A nil byte slice, and the conversion string(data) of lines 283 and 452.
NilValue == "<nil>"
BytesToString(data) == IF data = NilValue THEN "" ELSE data

VersionIndex(r, k, version) ==
    CASE version = "latest" -> Len(r[k].versions)
      [] version = "1"      -> 1
      [] OTHER              -> 2

\* GoogleSecretManagerClient.AccessSecretVersion
RemoteAccessSecretVersion(r, k, version, fault) ==
    LET i == VersionIndex(r, k, version)
    IN  IF fault \in {"api", "plain"}
        THEN [err |-> FaultErr(fault), version |-> NilPtr, remote |-> r]
        ELSE IF ~r[k].exists \/ i = 0 \/ i > Len(r[k].versions)
        THEN [err |-> NotFound, version |-> NilPtr, remote |-> r]
        ELSE IF fault = "absent"
        THEN [err |-> NoErr, version |-> [Payload |-> NilPtr], remote |-> r]
        ELSE [err |-> NoErr,
              version |-> [Payload |-> [Data |-> IF r[k].versions[i] = ""
                                                 THEN NilValue
                                                 ELSE r[k].versions[i]]],
              remote |-> r]

\* GoogleSecretManagerClient.AddSecretVersion
RemoteAddSecretVersion(r, k, data, fault) ==
    IF fault # "none"
    THEN [err |-> FaultErr(fault), remote |-> r]
    ELSE IF ~r[k].exists
    THEN [err |-> NotFound, remote |-> r]
    ELSE [err |-> NoErr,
          remote |-> [r EXCEPT ![k].versions = Append(@, data)]]

\* GoogleSecretManagerClient.ListSecrets: the names of the secrets the
\* filter selects, labels by equality and the name by substring.
NoFilter == [tags |-> {}, name |-> <<>>]
RECURSIVE Listing(_, _, _)
Listing(r, filter, i) ==
    IF i > Len(KeyOrder) THEN <<>>
    ELSE LET k == KeyOrder[i]
             hit == /\ r[k].exists
                    /\ filter.tags \subseteq r[k].labels
                    /\ Contains(FullName(k), filter.name)
         IN  (IF hit THEN <<FullName(k)>> ELSE <<>>) \o Listing(r, filter, i + 1)
\* The iterator ListSecrets returns: the names its Next() hands out, and
\* the error that follows them, nil for iterator.Done.  The call may fail
\* at once, fail after the first name (a later page that cannot be
\* fetched), or return secrets the filter does not select.
RemoteListSecrets(r, filter, fault) ==
    CASE fault = "none" ->
           [err |-> NoErr, names |-> Listing(r, filter, 1), remote |-> r]
      [] fault = "unfiltered" ->
           [err |-> NoErr, names |-> Listing(r, NoFilter, 1), remote |-> r]
      [] fault = "late" ->
           [err |-> FaultErr(fault),
            names |-> IF Listing(r, filter, 1) = <<>> THEN <<>>
                      ELSE <<Listing(r, filter, 1)[1]>>,
            remote |-> r]
      [] OTHER ->
           [err |-> FaultErr(fault), names |-> <<>>, remote |-> r]

-----------------------------------------------------------------------------
(***************************************************************************)
(* ProviderGCP's operations on the remote store.  Each is a function of    *)
(* the remote state, the request and the fault plan of the call, and       *)
(* answers with its error, its value, the remote calls it issued and the   *)
(* remote state they leave.                                                *)
(***************************************************************************)
errUninitalizedGCPProvider == "provider GCP is not initialized"
errClientGetSecretAccess == "unable to access Secret from SecretManager Client: "
errJSONSecretUnmarshal == "unable to unmarshal secret: "
errUnexpectedFindOperator == "unexpected find operator"
errNotManaged == "secret is not managed by external secrets"
errListSecrets == "failed to list secrets: "
errInvalidSecret == "invalid secret received. no secret string for key"
errNoProperty == "key does not exist in secret"
errRegexp == "error parsing regexp"
NilPointerPanic == "panic: nil pointer dereference"
defaultVersion == "latest"

Answer(err, value, r, rpcs) ==
    [err |-> err, value |-> value, remote |-> r, rpcs |-> rpcs]

\* SetSecret, lines 265-267, with the label check dropped.
isManagedByAnyone(gcpSecret) == TRUE

\* SetSecret, lines 265-267: the secret carries managed-by=external-secrets.
isManagedByUs(gcpSecret) == ManagedBy \in gcpSecret.labels

\* SetSecret, line 283, taking every stored payload for the incoming one.
samePayloadAlways(payload, gcpVersion) == TRUE

\* SetSecret, line 283, never recognising the stored payload.
samePayloadNever(payload, gcpVersion) == FALSE

\* SetSecret, line 283: the latest version holds the incoming payload.
samePayload(payload, gcpVersion) ==
    /\ gcpVersion # NilPtr
    /\ gcpVersion.Payload # NilPtr
    /\ payload = BytesToString(gcpVersion.Payload.Data)

\* SetSecret, lines 287-294, sending the request twice.
addVersionTwice(r, k, payload, f) ==
    LET first == RemoteAddSecretVersion(r, k, payload, FaultOf(f, "AddSecretVersion"))
    IN  RemoteAddSecretVersion(first.remote, k, payload, FaultOf(f, "AddSecretVersion"))

\* SetSecret, lines 287-294: one AddSecretVersion with the payload.
addVersion(r, k, payload, f) ==
    RemoteAddSecretVersion(r, k, payload, FaultOf(f, "AddSecretVersion"))

\* SetSecret, lines 275-281, returning only the APIErrors, as lines 254-263
\* do for the read of the secret.
accessErrorIsFatalAPIOnly(err) == IsAPIError(err) /\ err # NotFound

\* SetSecret, lines 275-281: the errors of the read of the latest version
\* that SetSecret returns, an APIError with a code other than NotFound and
\* any error that is no APIError.
accessErrorIsFatal(err) ==
    \/ IsAPIError(err) /\ err # NotFound
    \/ ~IsAPIError(err) /\ err # NoErr

\* SetSecret, lines 230-243: the request that creates the secret, and the
\* CreateSecret call as the log of remote calls keeps it.
createSecretReq(remoteRef) ==
    [Parent   |-> "projects/" \o ProjectID,
     SecretId |-> remoteRef.remoteKey,
     Secret   |-> [Labels |-> {ManagedBy}, Replication |-> "Automatic"]]
RpcCreate(req, err) ==
    [m |-> "CreateSecret", key |-> req.SecretId, err |-> err, req |-> req]

\* ProviderGCP.SetSecret
SetSecret(r, payload, remoteRef, f) ==
    LET k    == remoteRef.remoteKey
        g    == RemoteGetSecret(r, k, FaultOf(f, "GetSecret"))
        rpcG == <<Rpc("GetSecret", k, g.err)>>
        apiG == g.err # NoErr /\ IsAPIError(g.err)
        req  == createSecretReq(remoteRef)
        c    == RemoteCreateSecret(g.remote, req.SecretId, req.Secret.Labels,
                                   FaultOf(f, "CreateSecret"))
        rpcC == rpcG \o <<RpcCreate(req, c.err)>>
    IN  IF apiG /\ g.err # NotFound THEN Answer(g.err, NilValue, g.remote, rpcG)
        ELSE IF apiG /\ c.err # NoErr THEN Answer(c.err, NilValue, c.remote, rpcC)
        ELSE
          LET gcpSecret == IF apiG THEN c.secret ELSE g.secret
              r1   == IF apiG THEN c.remote ELSE g.remote
              rpc1 == IF apiG THEN rpcC ELSE rpcG
              a    == RemoteAccessSecretVersion(r1, k, "latest",
                                                FaultOf(f, "AccessSecretVersion"))
              rpcA == rpc1 \o <<Rpc("AccessSecretVersion", k, a.err)>>
              add  == addVersion(a.remote, k, payload, f)
              rpcV == rpcA \o <<Rpc("AddSecretVersion", k, add.err)>>
          IN  IF gcpSecret = NilPtr
              THEN Answer(NilPointerPanic, NilValue, r1, rpc1)
              ELSE IF ~isManagedByUs(gcpSecret)
              THEN Answer(errNotManaged, NilValue, r1, rpc1)
              ELSE IF accessErrorIsFatal(a.err)
              THEN Answer(a.err, NilValue, a.remote, rpcA)
              ELSE IF samePayload(payload, a.version)
              THEN Answer(NoErr, NilValue, a.remote, rpcA)
              ELSE Answer(add.err, NilValue, add.remote, rpcV)

\* strings.Split(s, sep): the segments between the separators.
RECURSIVE SplitOn(_, _)
SplitOn(s, sep) ==
    IF \A i \in 1 .. Len(s) : s[i] # sep
    THEN <<s>>
    ELSE LET cut == CHOOSE i \in 1 .. Len(s) :
                      /\ s[i] = sep
                      /\ \A j \in 1 .. (i - 1) : s[j] # sep
         IN  <<SubSeq(s, 1, cut - 1)>> \o SplitOn(SubSeq(s, cut + 1, Len(s)), sep)

\* strings.Index(s, c): the offset of the first c in s, counted from 0, and
\* -1 when s has none.
Index(s, c) ==
    IF \A i \in 1 .. Len(s) : s[i] # c
    THEN -1
    ELSE (CHOOSE i \in 1 .. Len(s) :
            s[i] = c /\ \A j \in 1 .. (i - 1) : s[j] # c) - 1

\* The same test with the offset 0 counted as a hit.
hasSeparatorAnywhere(property) == Index(property, ".") >= 0

\* GetSecret, lines 454-455: the property has a '.' after its first
\* character.
hasSeparator(property) == Index(property, ".") > 0

\* strings.ReplaceAll(property, ".", "\\."), line 457
EscapedDot == "\\."
escapeDots(property) ==
    [i \in 1 .. Len(property) |->
        IF property[i] = "." THEN EscapedDot ELSE property[i]]

\* JSON values: the kind, the bytes of the value as they stand in the
\* document (raw), what gjson's Result.String() and a Go string hold of it
\* (str), and the members of an object by key.  Keys and property paths
\* are sequences of characters; documents are text.
VString(s) ==
    [kind |-> "string", raw |-> "\"" \o s \o "\"", str |-> s, fields |-> <<>>]
VLiteral(kind, raw) ==
    [kind |-> kind, raw |-> raw, str |-> IF kind = "null" THEN "" ELSE raw,
     fields |-> <<>>]
VObject(raw, fields) ==
    [kind |-> "object", raw |-> raw, str |-> raw, fields |-> fields]
NotJSON == [kind |-> "invalid", raw |-> "", str |-> "", fields |-> <<>>]

V1 == VString("v1")
V2 == VString("v2")
VNumber == VLiteral("number", "1")
VTrue == VLiteral("true", "true")
VNull == VLiteral("null", "null")
VArray == VLiteral("array", "[1]")
VInner == VObject("{\"b\":\"v2\"}", <<"b">> :> V2)
DocFlatNested ==
    VObject("{\"a.b\":\"v1\",\"a\":{\"b\":\"v2\"}}",
            (<<"a", ".", "b">> :> V1) @@ (<<"a">> :> VInner))
DocNested == VObject("{\"a\":{\"b\":\"v2\"}}", <<"a">> :> VInner)
DocLeadingDot == VObject("{\".a\":\"v1\"}", <<".", "a">> :> V1)
DocMixed ==
    VObject("{\"s\":\"v1\",\"n\":1,\"t\":true,\"z\":null,\"l\":[1],\"o\":{\"b\":\"v2\"}}",
            (<<"s">> :> V1) @@ (<<"n">> :> VNumber) @@ (<<"t">> :> VTrue)
              @@ (<<"z">> :> VNull) @@ (<<"l">> :> VArray) @@ (<<"o">> :> VInner))
JSONValues ==
    <<V1, V2, VNumber, VTrue, VNull, VArray, VInner,
      DocFlatNested, DocNested, DocLeadingDot, DocMixed>>

\* The JSON value a text is the document of; any other text, the empty
\* one included, is no JSON document.
parseJSON(text) ==
    IF \E i \in 1 .. Len(JSONValues) : JSONValues[i].raw = text
    THEN JSONValues[CHOOSE i \in 1 .. Len(JSONValues) : JSONValues[i].raw = text]
    ELSE NotJSON

\* gjson's reading of a path: the components between unescaped dots, with
\* the escapes removed.
gjsonPath(path) ==
    LET parts == SplitOn(path, ".")
    IN  [p \in 1 .. Len(parts) |->
           [i \in 1 .. Len(parts[p]) |->
              IF parts[p][i] = EscapedDot THEN "." ELSE parts[p][i]]]

RECURSIVE gjsonWalk(_, _, _)
gjsonWalk(v, parts, i) ==
    IF i > Len(parts) THEN [exists |-> TRUE, str |-> v.str]
    ELSE IF v.kind = "object" /\ parts[i] \in DOMAIN v.fields
    THEN gjsonWalk(v.fields[parts[i]], parts, i + 1)
    ELSE [exists |-> FALSE, str |-> ""]

\* gjson.Get(json, path) with Result.Exists() and Result.String()
gjsonGet(json, path) ==
    IF path = <<>> THEN [exists |-> FALSE, str |-> ""]
    ELSE gjsonWalk(parseJSON(json), gjsonPath(path), 1)

\* json.Unmarshal(data, &kv) into a map[string]json.RawMessage, line 482: an
\* object gives its members' raw bytes, null leaves the map nil without an
\* error, anything else is an error.
jsonUnmarshal(data) ==
    LET v == parseJSON(data)
    IN  CASE v.kind = "object" ->
               [err |-> NoErr, kv |-> [k \in DOMAIN v.fields |-> v.fields[k].raw]]
          [] v.kind = "null"   -> [err |-> NoErr, kv |-> <<>>]
          [] v.kind = "invalid" -> [err |-> "invalid character", kv |-> <<>>]
          [] OTHER -> [err |-> "json: cannot unmarshal " \o v.kind \o " into Go value",
                       kv |-> <<>>]

\* json.Unmarshal(v, &strVal) into a string, line 490: a JSON string gives
\* its content, null leaves strVal empty without an error, anything else is
\* an error.
jsonUnmarshalString(data) ==
    LET v == parseJSON(data)
    IN  CASE v.kind = "string" -> [err |-> NoErr, strVal |-> v.str]
          [] v.kind = "null"   -> [err |-> NoErr, strVal |-> ""]
          [] OTHER -> [err |-> "json: cannot unmarshal " \o v.kind \o " into Go value",
                       strVal |-> ""]

\* GetSecretMap, lines 488-496: the value of one key of the result.
secretDataValue(raw) ==
    LET u == jsonUnmarshalString(raw)
    IN  IF u.err = NoErr THEN u.strVal ELSE raw

\* ProviderGCP.GetSecret
GetSecret(r, ref, f) ==
    LET version == IF ref.version = "" THEN defaultVersion ELSE ref.version
        a    == RemoteAccessSecretVersion(r, ref.key, version,
                                          FaultOf(f, "AccessSecretVersion"))
        rpcA == <<Rpc("AccessSecretVersion", ref.key, a.err)>>
    IN  IF sm.SecretManagerClient = NoClient \/ ProjectID = ""
        THEN Answer(errUninitalizedGCPProvider, NilValue, r, <<>>)
        ELSE IF a.err # NoErr
        THEN Answer(errClientGetSecretAccess \o a.err, NilValue, a.remote, rpcA)
        ELSE IF a.version.Payload = NilPtr
        THEN Answer(NilPointerPanic, NilValue, a.remote, rpcA)
        ELSE IF ref.property = <<>>
        THEN IF a.version.Payload.Data # NilValue
             THEN Answer(NoErr, a.version.Payload.Data, a.remote, rpcA)
             ELSE Answer(errInvalidSecret, NilValue, a.remote, rpcA)
        ELSE
          LET payload == IF a.version.Payload.Data # NilValue
                         THEN BytesToString(a.version.Payload.Data) ELSE ""
              flat    == gjsonGet(payload, escapeDots(ref.property))
              val     == gjsonGet(payload, ref.property)
          IN  IF hasSeparator(ref.property) /\ flat.exists
              THEN Answer(NoErr, flat.str, a.remote, rpcA)
              ELSE IF ~val.exists
              THEN Answer(errNoProperty, NilValue, a.remote, rpcA)
              ELSE Answer(NoErr, val.str, a.remote, rpcA)

\* ProviderGCP.GetSecretMap
GetSecretMap(r, ref, f) ==
    LET got == GetSecret(r, ref, f)
        kv  == jsonUnmarshal(got.value)
    IN  IF sm.SecretManagerClient = NoClient \/ ProjectID = ""
        THEN Answer(errUninitalizedGCPProvider, NilValue, r, <<>>)
        ELSE IF got.err # NoErr
        THEN got
        ELSE IF kv.err # NoErr
        THEN Answer(errJSONSecretUnmarshal \o kv.err, NilValue, got.remote, got.rpcs)
        ELSE Answer(NoErr,
                    {<<k, secretDataValue(kv.kv[k])>> : k \in DOMAIN kv.kv},
                    got.remote, got.rpcs)

\* strings.Split(name, "/"), line 419
Split(name) == SplitOn(name, "/")

\* ProviderGCP.extractProjectIDNumber
extractProjectIDNumber(secretFullName) == Split(secretFullName)[2]

\* ProviderGCP.trimName
trimName(name) ==
    TrimPrefix(name, <<"projects", "/">> \o extractProjectIDNumber(name)
                       \o <<"/", "secrets", "/">>)

\* find.New and Matcher.MatchName for the name patterns of the queries.
NamePatterns == {".*", "^a", "("}
CompileError(regexp) == regexp = "("
MatchName(regexp, key) ==
    CASE regexp = ".*" -> TRUE
      [] regexp = "^a" -> HasPrefix(key, <<"a">>)
      [] OTHER         -> FALSE

NoName == [set |-> FALSE, regexp |-> ""]
NoPath == [set |-> FALSE, val |-> <<>>]
Path == <<"a", "/">>
Finds ==
    [name : [set : {TRUE}, regexp : NamePatterns],
     tags : {{}},
     path : {NoPath, [set |-> TRUE, val |-> Path]}]
      \cup [name : {NoName},
            tags : {{}, {ManagedBy}},
            path : {NoPath, [set |-> TRUE, val |-> Path]}]

\* The ListSecrets call as the log of remote calls keeps it: the filter
\* of the request, the names the iterator handed out and the error that
\* ended it.
RpcList(filter, it) ==
    [m |-> "ListSecrets", key |-> filter, err |-> it.err, names |-> it.names]

\* ProviderGCP.getData, failing to report a failed fetch.
getDataIgnoringError(r, key, f) ==
    LET got == GetSecret(r, [key |-> key, version |-> "", property |-> <<>>], f)
    IN  IF got.err # NoErr
        THEN Answer(NoErr, "", got.remote, got.rpcs)
        ELSE got

\* ProviderGCP.getData
getData(r, key, f) ==
    LET got == GetSecret(r, [key |-> key, version |-> "", property |-> <<>>], f)
    IN  IF got.err # NoErr
        THEN Answer(got.err, "", got.remote, got.rpcs)
        ELSE got

\* The skip condition without the check of the path prefix.
skipEntryNoPrefix(ref, byName, key) ==
    byName /\ ~MatchName(ref.name.regexp, key)

\* The skip condition of the listing loops, line 346 (byName) and line 396.
skipEntry(ref, byName, key) ==
    \/ byName /\ ~MatchName(ref.name.regexp, key)
    \/ ref.path.set /\ ~HasPrefix(key, ref.path.val)

\* The listing loop of findByName (byName) and of findByTags: take the
\* names the iterator hands out, skip what the client-side filter rejects,
\* fetch the rest, stop at the first failed fetch and at the iterator's
\* error.
RECURSIVE findLoop(_, _, _, _, _, _, _, _)
findLoop(r, it, i, ref, byName, f, secretMap, rpcs) ==
    IF i > Len(it.names)
    THEN IF it.err # NoErr
         THEN Answer(errListSecrets \o it.err, NilValue, r, rpcs)
         ELSE Answer(NoErr, secretMap, r, rpcs)
    ELSE LET key  == trimName(it.names[i])
             data == getData(r, key, f)
         IN  IF skipEntry(ref, byName, key)
             THEN findLoop(r, it, i + 1, ref, byName, f, secretMap, rpcs)
             ELSE IF data.err # NoErr
             THEN Answer(data.err, NilValue, data.remote, rpcs \o data.rpcs)
             ELSE findLoop(data.remote, it, i + 1, ref, byName, f,
                           secretMap \cup {<<key, data.value>>},
                           rpcs \o data.rpcs)

\* ProviderGCP.findByName; the result is the mapping handed to the
\* caller's key conversion.
findByName(r, ref, f) ==
    LET filter == [tags |-> {},
                   name |-> IF ref.path.set THEN ref.path.val ELSE <<>>]
        it     == RemoteListSecrets(r, filter, FaultOf(f, "ListSecrets"))
    IN  IF CompileError(ref.name.regexp)
        THEN Answer(errRegexp, NilValue, r, <<>>)
        ELSE findLoop(it.remote, it, 1, ref, TRUE, f, {}, <<RpcList(filter, it)>>)

\* ProviderGCP.findByTags
findByTags(r, ref, f) ==
    LET filter == [tags |-> ref.tags,
                   name |-> IF ref.path.set THEN ref.path.val ELSE <<>>]
        it     == RemoteListSecrets(r, filter, FaultOf(f, "ListSecrets"))
    IN  findLoop(it.remote, it, 1, ref, FALSE, f, {}, <<RpcList(filter, it)>>)

\* ProviderGCP.GetAllSecrets with the two tests in the other order.
GetAllSecretsTagsFirst(r, ref, f) ==
    IF ref.tags # {} THEN findByTags(r, ref, f)
    ELSE IF ref.name.set THEN findByName(r, ref, f)
    ELSE Answer(errUnexpectedFindOperator, NilValue, r, <<>>)

\* ProviderGCP.GetAllSecrets
GetAllSecrets(r, ref, f) ==
    IF ref.name.set THEN findByName(r, ref, f)
    ELSE IF ref.tags # {} THEN findByTags(r, ref, f)
    ELSE Answer(errUnexpectedFindOperator, NilValue, r, <<>>)

-----------------------------------------------------------------------------
(***************************************************************************)
(* Calls on the remote store, one after another: SpecRemote.               *)
(***************************************************************************)
Writes(rpcs) ==
    {i \in 1 .. Len(rpcs) : rpcs[i].m \in {"CreateSecret", "AddSecretVersion"}}
Added(rpcs) ==
    Cardinality({i \in 1 .. Len(rpcs) :
                   rpcs[i].m = "AddSecretVersion" /\ rpcs[i].err = NoErr})

\* The fault of the plan that a call met: none when the call never issued
\* the remote call the plan fails.
Struck(f, rpcs) ==
    IF \E i \in 1 .. Len(rpcs) : rpcs[i].m = f.rpc THEN f ELSE NoFault

\* The record of a call: the request, the fault it met, how it ended, the
\* remote calls it issued, the addressed entry before it, and whether it
\* repeats a successful SetSecret that ran just before it (with the number
\* of versions that one added).
Record(op, req, f, out, pre, repeats, prevAdded) ==
    [op |-> op, req |-> req, fault |-> Struck(f, out.rpcs), err |-> out.err,
     value |-> out.value, rpcs |-> out.rpcs, pre |-> pre,
     repeats |-> repeats, prevAdded |-> prevAdded]
NoRecord ==
    Record("none", <<>>, NoFault, Answer(NoErr, NilValue, <<>>, <<>>),
           Absent, FALSE, 0)

CallSetSecret(k, payload, f) ==
    LET req == [remoteKey |-> k, payload |-> payload]
        repeats == last.op = "SetSecret" /\ last.err = NoErr /\ last.req = req
    IN  \E out \in {SetSecret(remote, payload, req, f)} :
          /\ Len(out.remote[k].versions) <= MaxVersions
          /\ remote' = out.remote
          /\ last' = Record("SetSecret", req, f, out, remote[k], repeats,
                            IF repeats THEN Added(last.rpcs) ELSE 0)
          /\ UNCHANGED <<credVars, lifeVars>>

Refs == [key : Keys, version : {"", "1"}, property : {<<>>, <<"a", ".", "b">>}]

CallGetSecret(ref, f) ==
    \E out \in {GetSecret(remote, ref, f)} :
      /\ remote' = out.remote
      /\ last' = Record("GetSecret", ref, f, out, remote[ref.key], FALSE, 0)
      /\ UNCHANGED <<credVars, lifeVars>>

CallGetSecretMap(ref, f) ==
    \E out \in {GetSecretMap(remote, ref, f)} :
      /\ remote' = out.remote
      /\ last' = Record("GetSecretMap", ref, f, out, remote[ref.key], FALSE, 0)
      /\ UNCHANGED <<credVars, lifeVars>>

CallGetAllSecrets(ref, f) ==
    \E out \in {GetAllSecrets(remote, ref, f)} :
      /\ remote' = out.remote
      /\ last' = Record("GetAllSecrets", ref, f, out, Absent, FALSE, 0)
      /\ UNCHANGED <<credVars, lifeVars>>

\* An instance that NewClient has constructed, facing any remote state.
InitRemote ==
    /\ InitCredIdle
    /\ useMu = TRUE /\ lockedBy = 1 /\ crashed = FALSE
    /\ sm = [SecretManagerClient |-> 1, gClient |-> 1]
    /\ pc = [c \in Callers |-> IF c = 1 THEN "ready" ELSE "idle"]
    /\ call = [c \in Callers |-> NoCall]
    /\ openClients = {1} /\ openHelpers = {1}
    /\ closedOnce = [c \in Callers |-> FALSE]
    /\ remote \in RemoteStates
    /\ last = NoRecord

NextRemote ==
    \/ \E k \in Keys, payload \in Payloads, f \in WriteFaults :
         CallSetSecret(k, payload, f)
    \/ \E ref \in Refs, f \in ReadFaults : CallGetSecret(ref, f)
    \/ \E ref \in Refs, f \in ReadFaults : CallGetSecretMap(ref, f)
    \/ \E ref \in Finds, f \in FindFaults : CallGetAllSecrets(ref, f)

SpecRemote == InitRemote /\ [][NextRemote]_vars

\* Pushes only.
NextPush ==
    \E k \in Keys, payload \in Payloads, f \in WriteFaults :
      CallSetSecret(k, payload, f)

SpecPush == InitRemote /\ [][NextPush]_vars

-----------------------------------------------------------------------------
(***************************************************************************)
(* Claims about the operations on the remote store.                        *)
(***************************************************************************)
PushedKey == last.req.remoteKey
Unowned(entry) == entry.exists /\ ManagedBy \notin entry.labels
Issued(m) == {i \in 1 .. Len(last.rpcs) : last.rpcs[i].m = m}
ReadFailed == last.fault.rpc \in {"GetSecret", "AccessSecretVersion"}

\* The original statement of C6: for every entry that exists before the
\* call and lacks managed-by=external-secrets, SetSecret returns the
\* not-managed error, issues no CreateSecret and no AddSecretVersion and
\* leaves the entry as it was.
C6_Original ==
    (last.op = "SetSecret" /\ Unowned(last.pre)) =>
      /\ last.err = errNotManaged
      /\ Writes(last.rpcs) = {}
      /\ remote[PushedKey] = last.pre

\* C6 (amended): ownership.  For every entry that exists before the call
\* and lacks managed-by=external-secrets (label absent or different), and
\* for every payload, SetSecret issues no CreateSecret and no
\* AddSecretVersion, leaves the whole remote entry as it was and never
\* returns success; it returns the not-managed error whenever its read of
\* the secret is answered, and otherwise ends with the read's API error or
\* with the nil-pointer panic that follows a read error that is no
\* APIError.
C6_Ownership ==
    (last.op = "SetSecret" /\ Unowned(last.pre)) =>
      /\ Writes(last.rpcs) = {}
      /\ remote[PushedKey] = last.pre
      /\ last.err # NoErr
      /\ last.fault = NoFault => last.err = errNotManaged
      /\ last.fault # NoFault =>
           /\ last.fault.rpc = "GetSecret"
           /\ last.err = IF last.fault.kind = "api"
                         THEN PermissionDenied ELSE NilPointerPanic

\* A push of a new payload to an unowned secret that has versions was
\* refused.
C6_Witness ==
    /\ last.op = "SetSecret"
    /\ Unowned(last.pre)
    /\ last.pre.versions # <<>>
    /\ last.req.payload # last.pre.versions[Len(last.pre.versions)]
    /\ last.err = errNotManaged

\* The original statement of C7: a SetSecret(k, p) that immediately
\* follows a successful SetSecret(k, p) succeeds and issues no
\* CreateSecret and no AddSecretVersion; the two add at most one version.
C7_Original ==
    (last.op = "SetSecret" /\ last.repeats) =>
      /\ last.err = NoErr
      /\ Writes(last.rpcs) = {}
      /\ last.prevAdded + Added(last.rpcs) <= 1

\* C7 (amended): idempotence of SetSecret.  A SetSecret(k, p) that
\* immediately follows a successful SetSecret(k, p) never issues
\* CreateSecret.  When its reads of the secret and of the latest version
\* are answered with what the remote store holds, it succeeds without
\* AddSecretVersion, so that the two calls add at most one version.  When
\* one of the two reads fails it does not succeed and writes nothing.
\* When the latest version is answered without a payload it appends p
\* again.
C7_Idempotent ==
    (last.op = "SetSecret" /\ last.repeats) =>
      /\ Issued("CreateSecret") = {}
      /\ ~ReadFailed =>
           /\ last.fault = NoFault
           /\ last.err = NoErr
           /\ Writes(last.rpcs) = {}
           /\ last.prevAdded + Added(last.rpcs) <= 1
      /\ (ReadFailed /\ last.fault.kind # "absent") =>
           /\ last.err # NoErr
           /\ Writes(last.rpcs) = {}
           /\ remote[PushedKey] = last.pre
      /\ (ReadFailed /\ last.fault.kind = "absent") =>
           /\ last.err = NoErr
           /\ remote[PushedKey].versions
                = Append(last.pre.versions, last.req.payload)

\* A push that added a version was repeated, and the repetition wrote
\* nothing.
C7_Witness ==
    /\ last.op = "SetSecret"
    /\ last.repeats
    /\ last.prevAdded = 1
    /\ last.err = NoErr
    /\ Writes(last.rpcs) = {}

IsPrefix(s, t) == Len(s) <= Len(t) /\ SubSeq(t, 1, Len(s)) = s

\* C10: append-only remote state.  No step of GetSecret, GetSecretMap,
\* GetAllSecrets or SetSecret deletes a secret or a version or changes an
\* existing version's payload or an existing secret's labels; the three
\* reading operations leave the remote state unchanged; SetSecret changes
\* nothing but the addressed secret, which it may create (with the
\* ownership label and no version) and to which it appends at most one
\* version, holding the payload of the call.
C10_AppendOnly ==
    [][ /\ \A k \in Keys :
             remote[k].exists =>
               /\ remote'[k].exists
               /\ remote'[k].labels = remote[k].labels
               /\ IsPrefix(remote[k].versions, remote'[k].versions)
        /\ last'.op \in {"GetSecret", "GetSecretMap", "GetAllSecrets"} =>
             remote' = remote
        /\ last'.op = "SetSecret" =>
             LET k == last'.req.remoteKey
             IN  /\ \A other \in Keys \ {k} : remote'[other] = remote[other]
                 /\ remote'[k] # remote[k] =>
                      /\ remote'[k].exists
                      /\ ~remote[k].exists => remote'[k].labels = {ManagedBy}
                      /\ remote'[k].versions = remote[k].versions
                           \/ remote'[k].versions
                                = Append(remote[k].versions, last'.req.payload)
      ]_vars

\* A push appended its payload to a secret that already had a version.
C10_Witness ==
    /\ last.op = "SetSecret"
    /\ last.err = NoErr
    /\ last.pre.versions # <<>>
    /\ remote[PushedKey].versions
         = Append(last.pre.versions, last.req.payload)

-----------------------------------------------------------------------------
(***************************************************************************)
(* Reads of a store of JSON documents: SpecRead.  The store is any of a    *)
(* family of contents of the two keys, the calls are GetSecret and         *)
(* GetSecretMap.                                                           *)
(***************************************************************************)
ReadPayloads ==
    {"", "p1", V1.raw, VNumber.raw, VTrue.raw, VNull.raw, VArray.raw,
     DocFlatNested.raw, DocNested.raw, DocLeadingDot.raw, DocMixed.raw}
Stored(versions) == [exists |-> TRUE, labels |-> {ManagedBy}, versions |-> versions]
ReadEntries ==
    {Absent, Stored(<<>>), Stored(<<"p1", DocMixed.raw>>), Stored(<<DocMixed.raw, "p1">>)}
      \cup {Stored(<<p>>) : p \in ReadPayloads}
ReadStores ==
    {(K1 :> e1) @@ (K2 :> e2) :
       e1 \in ReadEntries, e2 \in {Absent, Stored(<<DocNested.raw>>)}}

Properties ==
    {<<>>, <<"a", ".", "b">>, <<".", "a">>, <<"a", ".", "c">>,
     <<"s">>, <<"z">>, <<"o">>}
ReadRefs == [key : Keys, version : {"", "1", "2"}, property : Properties]

InitRead ==
    /\ InitCredIdle
    /\ useMu = TRUE /\ lockedBy = 1 /\ crashed = FALSE
    /\ sm = [SecretManagerClient |-> 1, gClient |-> 1]
    /\ pc = [c \in Callers |-> IF c = 1 THEN "ready" ELSE "idle"]
    /\ call = [c \in Callers |-> NoCall]
    /\ openClients = {1} /\ openHelpers = {1}
    /\ closedOnce = [c \in Callers |-> FALSE]
    /\ remote \in ReadStores
    /\ last = NoRecord

NextRead ==
    \/ \E ref \in ReadRefs, f \in ReadFaults : CallGetSecret(ref, f)
    \/ \E ref \in ReadRefs, f \in ReadFaults : CallGetSecretMap(ref, f)

SpecRead == InitRead /\ [][NextRead]_vars

\* What a read addressed: the version asked for, "latest" when none is
\* named, and the stored bytes of that version.
AddressedVersion == IF last.req.version = "" THEN "latest" ELSE last.req.version
AddressedBytes ==
    last.pre.versions[VersionIndex(remote, last.req.key, AddressedVersion)]
AccessSucceeded ==
    /\ Len(last.rpcs) = 1
    /\ last.rpcs[1].m = "AccessSecretVersion"
    /\ last.rpcs[1].err = NoErr
Crashed == last.err = NilPointerPanic

\* C11: GetSecret without a property.  Whenever AccessSecretVersion
\* succeeds the call neither crashes nor succeeds with nothing: when the
\* response carries payload bytes it returns exactly the stored bytes of
\* the addressed version, "latest" when the request names none, and when
\* the payload is absent from the response it fails with the
\* invalid-secret error.
C11_RawPayload ==
    (last.op = "GetSecret" /\ last.req.property = <<>> /\ AccessSucceeded) =>
      /\ ~Crashed
      /\ IF last.fault = NoFault /\ AddressedBytes # ""
         THEN last.err = NoErr /\ last.value = AddressedBytes
         ELSE last.err = errInvalidSecret

\* What the addressed version holds, read as a JSON document, and the two
\* readings of the requested property in it: as one key of the document,
\* and as a chain of keys, one per dot-separated segment.
AddressedDoc == parseJSON(AddressedBytes)
PayloadReturned == AccessSucceeded /\ last.fault = NoFault
FlatResolves ==
    /\ AddressedDoc.kind = "object"
    /\ last.req.property \in DOMAIN AddressedDoc.fields
FlatValue == AddressedDoc.fields[last.req.property].str
NestedLookup == gjsonWalk(AddressedDoc, SplitOn(last.req.property, "."), 1)

\* C12: property lookup order.  For a GetSecret whose property contains a
\* '.', answered with the stored payload: when the whole property is a key
\* of the document the call returns that key's value; otherwise, when the
\* property resolves as nested field access, it returns the nested value;
\* and it fails with the property-not-found error exactly when neither
\* resolves.
C12_FlatFirst ==
    (/\ last.op = "GetSecret"
     /\ hasSeparatorAnywhere(last.req.property)
     /\ PayloadReturned) =>
      /\ FlatResolves => (last.err = NoErr /\ last.value = FlatValue)
      /\ (~FlatResolves /\ NestedLookup.exists) =>
           (last.err = NoErr /\ last.value = NestedLookup.str)
      /\ (last.err = errNoProperty) <=> (~FlatResolves /\ ~NestedLookup.exists)

\* C13: value handling of GetSecretMap.  For a GetSecretMap without a
\* property whose fetched payload is a JSON object, the call succeeds and
\* its result has exactly the keys of the object; the value of a key is
\* the unwrapped content when the member is a JSON string and the raw
\* bytes of the member otherwise (number, boolean, null, array, object).
C13_MapValues ==
    (/\ last.op = "GetSecretMap"
     /\ last.req.property = <<>>
     /\ PayloadReturned
     /\ AddressedDoc.kind = "object") =>
      /\ last.err = NoErr
      /\ last.value =
           {<<k, IF AddressedDoc.fields[k].kind = "string"
                 THEN AddressedDoc.fields[k].str
                 ELSE AddressedDoc.fields[k].raw>> : k \in DOMAIN AddressedDoc.fields}

\* The errors of GetSecretMap for a payload that json.Unmarshal rejects.
UnmarshalFailures ==
    {errJSONSecretUnmarshal \o "invalid character"}
      \cup {errJSONSecretUnmarshal \o "json: cannot unmarshal " \o kind \o " into Go value" :
              kind \in {"string", "number", "true", "array"}}

\* C14: payloads GetSecretMap rejects.  When the underlying GetSecret
\* fails, GetSecretMap fails with the same error; when it returns a payload
\* that is not a JSON object (a JSON string, number, boolean, array or
\* null, or text that is no JSON) GetSecretMap fails with the unmarshal
\* error and returns no mapping.
C14_NonObjectRejected ==
    last.op = "GetSecretMap" =>
      LET got == GetSecret(remote, last.req, last.fault)
      IN  /\ got.err # NoErr => last.err = got.err
          /\ (got.err = NoErr /\ parseJSON(got.value).kind # "object") =>
               last.err \in UnmarshalFailures

-----------------------------------------------------------------------------
(***************************************************************************)
(* Searches of a store: SpecFind.  The store is any of a family of         *)
(* contents of the two keys, the calls are GetAllSecrets with every shape  *)
(* of query, and the listing and the fetches may fail.                     *)
(***************************************************************************)
FindEntries ==
    {Absent} \cup [exists : {TRUE}, labels : {{}, {ManagedBy}},
                   versions : {<<>>, <<"p1">>, <<"p1", "p2">>, <<"">>}]
FindStores == [Keys -> FindEntries]
FindQueries ==
    [name : {NoName} \cup [set : {TRUE}, regexp : NamePatterns],
     tags : {{}, {ManagedBy}},
     path : {NoPath, [set |-> TRUE, val |-> Path]}]
ListFaults ==
    {NoFault, Fault("ListSecrets", "api"), Fault("ListSecrets", "late"),
     Fault("ListSecrets", "unfiltered"), Fault("AccessSecretVersion", "api"),
     Fault("AccessSecretVersion", "absent")}

InitFind ==
    /\ InitCredIdle
    /\ useMu = TRUE /\ lockedBy = 1 /\ crashed = FALSE
    /\ sm = [SecretManagerClient |-> 1, gClient |-> 1]
    /\ pc = [c \in Callers |-> IF c = 1 THEN "ready" ELSE "idle"]
    /\ call = [c \in Callers |-> NoCall]
    /\ openClients = {1} /\ openHelpers = {1}
    /\ closedOnce = [c \in Callers |-> FALSE]
    /\ remote \in FindStores
    /\ last = NoRecord

NextFind == \E ref \in FindQueries, f \in ListFaults : CallGetAllSecrets(ref, f)

SpecFind == InitFind /\ [][NextFind]_vars

\* What a search did, read from the log of its remote calls: the listing
\* it was handed, the keys it fetched, and the keys of its result.
Searched == last.op = "GetAllSecrets"
ListCalls == Issued("ListSecrets")
Listed == IF ListCalls = {} THEN <<>> ELSE last.rpcs[1].names
ListedKeys == {SubSeq(Listed[i], 7, Len(Listed[i])) : i \in 1 .. Len(Listed)}
FetchedKeys == {last.rpcs[i].key : i \in Issued("AccessSecretVersion")}
ResultKeys == {kv[1] : kv \in last.value}
SameOutcome(out) ==
    /\ last.err = out.err
    /\ last.rpcs = out.rpcs
    /\ last.err = NoErr => last.value = out.value

\* C15: dispatch of GetAllSecrets.  A query with a name pattern gets the
\* outcome of findByName, and its listing never filters on labels; a query
\* with no name pattern and at least one tag gets the outcome of
\* findByTags, and its listing filters on the query's tags; a query with
\* neither fails with the unexpected-find-operator error and issues no
\* remote call.
C15_Dispatch ==
    Searched =>
      /\ last.req.name.set =>
           /\ SameOutcome(findByName(remote, last.req, last.fault))
           /\ \A i \in ListCalls : last.rpcs[i].key.tags = {}
      /\ (~last.req.name.set /\ last.req.tags # {}) =>
           /\ SameOutcome(findByTags(remote, last.req, last.fault))
           /\ ListCalls = {1}
           /\ last.rpcs[1].key.tags = last.req.tags
      /\ (~last.req.name.set /\ last.req.tags = {}) =>
           /\ last.err = errUnexpectedFindOperator
           /\ last.rpcs = <<>>

\* A query with a name pattern and a tag returned a secret that does not
\* carry the tag: the name-based search served it.
C15_Witness ==
    /\ Searched
    /\ last.req.name.set
    /\ last.req.tags # {}
    /\ last.err = NoErr
    /\ \E k \in ResultKeys : ~(last.req.tags \subseteq remote[k].labels)

\* C16: prefix correctness.  For every search with a path prefix, by name
\* or by tags, whatever the listing returns, a key that does not start
\* with the prefix is never fetched and is not a key of the result.
C16_PrefixOnly ==
    (Searched /\ last.req.path.set) =>
      \A k \in Keys :
        ~IsPrefix(last.req.path.val, k) =>
          /\ k \notin FetchedKeys
          /\ last.err = NoErr => k \notin ResultKeys

\* A search with the prefix a/ was handed ba/x by the listing and returned
\* a/x alone.
C16_Witness ==
    /\ Searched
    /\ last.req.path.set
    /\ K2 \in ListedKeys
    /\ last.err = NoErr
    /\ ResultKeys = {K1}

\* The keys of the listing that pass the client-side filter of the search.
Passing ==
    {k \in ListedKeys :
       /\ last.req.name.set => MatchName(last.req.name.regexp, k)
       /\ last.req.path.set => IsPrefix(last.req.path.val, k)}
LatestBytes(k) ==
    IF remote[k].versions = <<>> THEN NilValue
    ELSE remote[k].versions[Len(remote[k].versions)]
FetchFails(k) ==
    \/ remote[k].versions = <<>>
    \/ LatestBytes(k) = ""
    \/ last.fault = Fault("AccessSecretVersion", "api")
ListingFails ==
    \E i \in ListCalls : last.rpcs[i].err # NoErr

-----------------------------------------------------------------------------
(***************************************************************************)
(* The ACR access token generator: SpecACR.  Generate is a function of the *)
(* generator spec, the environment of the process, the outcome of the      *)
(* calls it makes, and the AAD access token the identity provider issues.  *)
(* A run is its result, its error and what it did, in order: the           *)
(* environment variables and files it read, the tokens it requested, the   *)
(* lines it wrote to standard output and the requests it posted to the     *)
(* registry's token endpoints.                                             *)
(***************************************************************************)
errNoSpec == "no config spec provided"
errParseSpec == "unable to parse spec: "
errMissingEnv == "missing environment variables"
errReadTokenFile == "unable to read token file "
errMissingAnnotation == "service account is missing annoation: "
errSecretNotFound == "unable to find namespace secret"
errUnexpectedStatus == "unexpected status code"
errNoToken == "unable to get token"
ACRUser == "00000000-0000-0000-0000-000000000000"

Unset == "<unset>"
EnvNames == {"AZURE_CLIENT_ID", "AZURE_TENANT_ID", "AZURE_FEDERATED_TOKEN_FILE"}
AuthKinds == {"ServicePrincipal", "ManagedIdentity", "WorkloadIdentity"}
ACRFailures ==
    {"none", "GetConfig", "ReadFile", "NewTokenProvider", "crClient.Get",
     "AnnotationClientID", "FetchSAToken", "GetToken", "exchange",
     "exchangeNoField", "token", "tokenNoField"}
AADTokens == {"aad1", "aad2"}
ACRInputs ==
    [spec : {"nil", "bad", "ok"},
     auth : SUBSET AuthKinds,
     serviceAccountRef : BOOLEAN,
     env : [EnvNames -> {Unset, "", "v"}],
     fails : ACRFailures,
     scope : {"", "repository:x:pull"}]

\* os.Getenv: the value of the variable, empty when it is not set.
Getenv(env, name) == IF env[name] = Unset THEN "" ELSE env[name]

Effect(op, arg) == [op |-> op, arg |-> arg]
TokenRun(token, err, effects) == [token |-> token, err |-> err, effects |-> effects]

\* accessTokenForWorkloadIdentity, line 203, testing the token file alone.
missingEnvTokenFileOnly(clientID, tenantID, tokenFilePath) == tokenFilePath = ""

\* accessTokenForWorkloadIdentity, line 203
missingEnv(clientID, tenantID, tokenFilePath) ==
    clientID = "" \/ tenantID = "" \/ tokenFilePath = ""

\* accessTokenForWorkloadIdentity
accessTokenForWorkloadIdentity(in, aad) ==
    LET clientID      == Getenv(in.env, "AZURE_CLIENT_ID")
        tenantID      == Getenv(in.env, "AZURE_TENANT_ID")
        tokenFilePath == Getenv(in.env, "AZURE_FEDERATED_TOKEN_FILE")
        getenvs  == <<Effect("Getenv", "AZURE_CLIENT_ID"),
                      Effect("Getenv", "AZURE_TENANT_ID"),
                      Effect("Getenv", "AZURE_FEDERATED_TOKEN_FILE")>>
        readFile == getenvs \o <<Effect("ReadFile", tokenFilePath)>>
        provider == readFile \o <<Effect("NewTokenProvider", clientID)>>
        getSA    == <<Effect("crClient.Get", "ServiceAccount")>>
        fetchSA  == getSA \o <<Effect("FetchSAToken", "ServiceAccount")>>
        saProvider == fetchSA \o <<Effect("NewTokenProvider", "annotation")>>
    IN  IF ~in.serviceAccountRef
        THEN IF missingEnv(clientID, tenantID, tokenFilePath)
             THEN TokenRun("", errMissingEnv, getenvs)
             ELSE IF in.fails = "ReadFile"
             THEN TokenRun("", errReadTokenFile, readFile)
             ELSE IF in.fails = "NewTokenProvider"
             THEN TokenRun("", "NewTokenProvider failed", provider)
             ELSE TokenRun(aad, NoErr, provider)
        ELSE IF in.fails = "crClient.Get"
             THEN TokenRun("", "ServiceAccount not found", getSA)
             ELSE IF in.fails = "AnnotationClientID"
             THEN TokenRun("", errMissingAnnotation, getSA)
             ELSE IF in.fails = "FetchSAToken"
             THEN TokenRun("", "FetchSAToken failed", fetchSA)
             ELSE IF in.fails = "NewTokenProvider"
             THEN TokenRun("", "NewTokenProvider failed", saProvider)
             ELSE TokenRun(aad, NoErr, saProvider)

\* accessTokenForManagedIdentity
accessTokenForManagedIdentity(in, aad) ==
    IF in.fails = "GetToken"
    THEN TokenRun("", "GetToken failed", <<Effect("GetToken", "ManagedIdentity")>>)
    ELSE TokenRun(aad, NoErr, <<Effect("GetToken", "ManagedIdentity")>>)

\* accessTokenForServicePrincipal with secretKeyRef
accessTokenForServicePrincipal(in, aad) ==
    LET refs == <<Effect("crClient.Get", "Secret"), Effect("crClient.Get", "Secret")>>
    IN  IF in.fails = "crClient.Get"
        THEN TokenRun("", errSecretNotFound, SubSeq(refs, 1, 1))
        ELSE IF in.fails = "GetToken"
        THEN TokenRun("", "GetToken failed",
                      refs \o <<Effect("GetToken", "ServicePrincipal")>>)
        ELSE TokenRun(aad, NoErr, refs \o <<Effect("GetToken", "ServicePrincipal")>>)

\* Generate, lines 78-105: the first configured way of authenticating, and
\* an empty token without an error when none is configured.
obtainAccessToken(in, aad) ==
    IF "ServicePrincipal" \in in.auth THEN accessTokenForServicePrincipal(in, aad)
    ELSE IF "ManagedIdentity" \in in.auth THEN accessTokenForManagedIdentity(in, aad)
    ELSE IF "WorkloadIdentity" \in in.auth THEN accessTokenForWorkloadIdentity(in, aad)
    ELSE TokenRun("", NoErr, <<>>)

\* fetchACRRefreshToken and fetchACRAccessToken: the request posted and the
\* token the registry answers with.  An answer with another status than
\* 200, or without the token field, is an error.
fetchACRRefreshToken(in, aadAccessToken) ==
    LET post == <<Effect("POST /oauth2/exchange", aadAccessToken)>>
    IN  IF in.fails = "exchange"
        THEN TokenRun("", errUnexpectedStatus, post)
        ELSE IF in.fails = "exchangeNoField"
        THEN TokenRun("", errNoToken, post)
        ELSE TokenRun("acr-refresh-token", NoErr, post)
fetchACRAccessToken(in, acrRefreshToken) ==
    LET post == <<Effect("POST /oauth2/token", acrRefreshToken)>>
    IN  IF in.fails = "token"
        THEN TokenRun("", errUnexpectedStatus, post)
        ELSE IF in.fails = "tokenNoField"
        THEN TokenRun("", errNoToken, post)
        ELSE TokenRun("acr-access-token", NoErr, post)

GenerateRun(result, err, effects) ==
    [result |-> result, err |-> err, effects |-> effects]
NoResult == [user |-> "", token |-> ""]

\* Generator.Generate
Generate(in, aad) ==
    LET at      == obtainAccessToken(in, aad)
        printed == at.effects
                     \o <<Effect("stdout", "aad access token: " \o at.token \o "\n")>>
        refresh == fetchACRRefreshToken(in, at.token)
        scoped  == fetchACRAccessToken(in, refresh.token)
    IN  IF in.spec = "nil" THEN GenerateRun(NoResult, errNoSpec, <<>>)
        ELSE IF in.spec = "bad" THEN GenerateRun(NoResult, errParseSpec, <<>>)
        ELSE IF in.fails = "GetConfig"
        THEN GenerateRun(NoResult, "GetConfig failed", <<>>)
        ELSE IF at.err # NoErr THEN GenerateRun(NoResult, at.err, at.effects)
        ELSE IF refresh.err # NoErr
        THEN GenerateRun(NoResult, refresh.err, printed \o refresh.effects)
        ELSE IF in.scope # "" /\ scoped.err # NoErr
        THEN GenerateRun(NoResult, scoped.err,
                         printed \o refresh.effects \o scoped.effects)
        ELSE IF in.scope # ""
        THEN GenerateRun([user |-> ACRUser, token |-> scoped.token], NoErr,
                         printed \o refresh.effects \o scoped.effects)
        ELSE GenerateRun([user |-> ACRUser, token |-> refresh.token], NoErr,
                         printed \o refresh.effects)

Generated == credOut # NoOutcome

\* One call of Generate on the inputs drawn by the initial state, kept for
\* each AAD access token the identity provider may issue.
GenerateCall ==
    /\ ~Generated
    /\ credOut' = [aad \in AADTokens |-> Generate(credIn, aad)]
    /\ UNCHANGED <<credIn, lifeVars, remoteVars>>

InitACR ==
    /\ credIn \in ACRInputs
    /\ credOut = NoOutcome
    /\ InitLife
    /\ InitRemoteIdle

SpecACR == InitACR /\ [][GenerateCall]_vars

\* Generate reached accessTokenForWorkloadIdentity, and without a service
\* account reference.
AmbientWorkloadIdentity ==
    /\ credIn.spec = "ok"
    /\ credIn.fails # "GetConfig"
    /\ credIn.auth = {"WorkloadIdentity"}
    /\ ~credIn.serviceAccountRef
Did(run, ops) == {i \in 1 .. Len(run.effects) : run.effects[i].op \in ops}

\* C18: ambient workload-identity inputs.  When no service account
\* reference is given and one of AZURE_CLIENT_ID, AZURE_TENANT_ID and
\* AZURE_FEDERATED_TOKEN_FILE is unset or empty,
\* accessTokenForWorkloadIdentity fails with the missing-variables error,
\* reads no token file and requests no token.
C18_MissingEnvironment ==
    (/\ Generated
     /\ AmbientWorkloadIdentity
     /\ \E name \in EnvNames : credIn.env[name] \in {Unset, ""}) =>
      \A aad \in AADTokens :
        /\ credOut[aad].err = errMissingEnv
        /\ Did(credOut[aad], {"ReadFile", "NewTokenProvider", "FetchSAToken",
                              "GetToken", "POST /oauth2/exchange",
                              "POST /oauth2/token"}) = {}

\* The client id alone was missing, unset, with the token file named: the
\* call failed after reading the three variables and nothing else.
C18_Witness ==
    /\ Generated
    /\ AmbientWorkloadIdentity
    /\ credIn.env["AZURE_CLIENT_ID"] = Unset
    /\ credIn.env["AZURE_TENANT_ID"] = "v"
    /\ credIn.env["AZURE_FEDERATED_TOKEN_FILE"] = "v"
    /\ credOut["aad1"].err = errMissingEnv
    /\ Len(credOut["aad1"].effects) = 3

\* What a run emits besides its requests to the token endpoints and its
\* returned result.
NotARequest(e) == e.op \notin {"POST /oauth2/exchange", "POST /oauth2/token"}
Emitted(run) == SelectSeq(run.effects, NotARequest)

\* C19: credential confidentiality.  Two runs of Generate that differ only
\* in the AAD access token they obtained emit the same things, standard
\* output included, apart from their requests to the token endpoints and
\* their returned results.
C19_TokenNotEmitted ==
    Generated =>
      \A a1, a2 \in AADTokens : Emitted(credOut[a1]) = Emitted(credOut[a2])

-----------------------------------------------------------------------------
(***************************************************************************)
(* The first step of SetSecret, in SpecPush.                               *)
(***************************************************************************)
ReadOfSecret == last.rpcs[1]
CreateCalls == Issued("CreateSecret")

\* C20: step 1 of SetSecret.  When GetSecret reports not-found, SetSecret
\* issues one CreateSecret with the label managed-by=external-secrets and
\* automatic replication, and when that succeeds it goes on to read the
\* latest version.  When GetSecret fails with any other error, an APIError
\* or not, SetSecret returns an error and issues no CreateSecret, no
\* AccessSecretVersion and no AddSecretVersion.  When CreateSecret fails,
\* SetSecret returns its error and issues no AddSecretVersion.
C20_ReadThenCreate ==
    (last.op = "SetSecret" /\ ReadOfSecret.m = "GetSecret") =>
      /\ ReadOfSecret.err = NotFound =>
           /\ CreateCalls = {2}
           /\ last.rpcs[2].req.Secret.Labels = {ManagedBy}
           /\ last.rpcs[2].req.Secret.Replication = "Automatic"
           /\ last.rpcs[2].err = NoErr => Issued("AccessSecretVersion") # {}
           /\ last.rpcs[2].err # NoErr =>
                /\ last.err = last.rpcs[2].err
                /\ Issued("AccessSecretVersion") = {}
                /\ Issued("AddSecretVersion") = {}
      /\ ReadOfSecret.err \notin {NoErr, NotFound} =>
           /\ last.err # NoErr
           /\ ~Crashed
           /\ CreateCalls = {}
           /\ Issued("AccessSecretVersion") = {}
           /\ Issued("AddSecretVersion") = {}

ReadsOfLatest == Issued("AccessSecretVersion")
ReadOfLatest == last.rpcs[CHOOSE i \in ReadsOfLatest : TRUE]

\* C21: step 3 of SetSecret.  When the read of the latest version reports
\* not-found, SetSecret goes on to AddSecretVersion with the incoming
\* payload, and a successful add leaves the payload as the only version.
\* When that read fails with any other error, an APIError of another code
\* or an error that is no APIError, SetSecret returns that error and
\* issues no AddSecretVersion, whether the secret had been found or had
\* just been created.
C21_LatestRead ==
    (last.op = "SetSecret" /\ ReadsOfLatest # {}) =>
      /\ Cardinality(ReadsOfLatest) = 1
      /\ ReadOfLatest.err = NotFound =>
           /\ Cardinality(Issued("AddSecretVersion")) = 1
           /\ last.err = NoErr =>
                remote[PushedKey].versions = <<last.req.payload>>
      /\ ReadOfLatest.err \notin {NoErr, NotFound} =>
           /\ last.err = ReadOfLatest.err
           /\ Issued("AddSecretVersion") = {}
           /\ remote[PushedKey].versions = last.pre.versions

\* The secret was not found and was created, and the read of its latest
\* version failed with an error that is no APIError: SetSecret returned it.
C21_Witness ==
    /\ last.op = "SetSecret"
    /\ ReadOfSecret.err = NotFound
    /\ ReadsOfLatest # {}
    /\ ReadOfLatest.err = DeadlineExceeded
    /\ last.err = DeadlineExceeded

-----------------------------------------------------------------------------
(***************************************************************************)
(* SetSecret calls with their history: SpecRetry.  Besides the last call,  *)
(* the record keeps, per key, how many CreateSecret calls have succeeded   *)
(* so far, and the keys for which an earlier SetSecret created the secret  *)
(* and failed before it added a version.                                   *)
(***************************************************************************)
Created(rpcs) ==
    Cardinality({i \in 1 .. Len(rpcs) :
                   rpcs[i].m = "CreateSecret" /\ rpcs[i].err = NoErr})
NoHistory == [creates |-> [k \in Keys |-> 0], partial |-> {}]

CallSetSecretTracked(k, payload, f) ==
    LET req == [remoteKey |-> k, payload |-> payload] IN
    \E out \in {SetSecret(remote, payload, req, f)} :
      /\ Len(out.remote[k].versions) <= MaxVersions
      /\ remote' = out.remote
      /\ last' = Record("SetSecret", req, f, out, remote[k], FALSE, 0)
                   @@ [creates |-> [last.creates EXCEPT ![k] = @ + Created(out.rpcs)],
                       partial |->
                         IF Created(out.rpcs) > 0 /\ out.err # NoErr
                         THEN last.partial \cup {k} ELSE last.partial]
      /\ UNCHANGED <<credVars, lifeVars>>

InitRetry ==
    /\ InitCredIdle
    /\ useMu = TRUE /\ lockedBy = 1 /\ crashed = FALSE
    /\ sm = [SecretManagerClient |-> 1, gClient |-> 1]
    /\ pc = [c \in Callers |-> IF c = 1 THEN "ready" ELSE "idle"]
    /\ call = [c \in Callers |-> NoCall]
    /\ openClients = {1} /\ openHelpers = {1}
    /\ closedOnce = [c \in Callers |-> FALSE]
    /\ remote \in RemoteStates
    /\ last = NoRecord @@ NoHistory

NextRetry ==
    \E k \in Keys, payload \in Payloads, f \in WriteFaults :
      CallSetSecretTracked(k, payload, f)

SpecRetry == InitRetry /\ [][NextRetry]_vars

\* C22: postcondition of SetSecret.  Whenever SetSecret(k, p) succeeds, the
\* secret k exists in the remote store, carries managed-by=external-secrets
\* and has p as the payload of its latest version; and when an earlier
\* SetSecret had created k and failed before adding a version, k has been
\* created once in all.
C22_Postcondition ==
    (last.op = "SetSecret" /\ last.err = NoErr) =>
      /\ remote[PushedKey].exists
      /\ ManagedBy \in remote[PushedKey].labels
      /\ remote[PushedKey].versions # <<>>
      /\ LatestBytes(PushedKey) = last.req.payload
      /\ PushedKey \in last.partial => last.creates[PushedKey] = 1

\* A SetSecret succeeded on a key that an earlier SetSecret had created
\* and left without a version.
C22_Witness ==
    /\ last.op = "SetSecret"
    /\ last.err = NoErr
    /\ PushedKey \in last.partial
    /\ last.creates[PushedKey] = 1
    /\ remote[PushedKey].versions = <<last.req.payload>>

-----------------------------------------------------------------------------
(***************************************************************************)
(* Construction that fails after the helper was made, and the errors of    *)
(* Close.                                                                  *)
(***************************************************************************)
\* The NewClient call of caller c has returned an error after its
\* workload-identity helper was created (lines 188-194).
FailedAfterHelper(c) ==
    /\ pc[c] = "idle"
    /\ call[c].err # NoErr
    /\ HasEvent(c, "newWorkloadIdentity")
    /\ HasEvent(c, "return")

\* C23: every NewClient call that returns an error after creating its
\* workload-identity helper has closed that helper before returning, also
\* on an object on which an earlier NewClient succeeded and was closed.
\* The calls are taken one after another: the object's helper field still
\* holds the helper of the call that returned.
C23_NoHelperLeak ==
    \A c \in Callers :
        FailedAfterHelper(c) /\ sm.gClient = c => c \notin openHelpers

\* C24: Close returns an error whenever closing the secret-manager client
\* fails or closing the workload-identity helper fails, and nil only when
\* both closes succeeded; both closes are attempted (neither the client nor
\* the helper of the object is open afterwards) before the lock is
\* released.
C24_CloseErrors ==
    \A c \in Callers :
        pc[c] = "closing" =>
            /\ call[c].closeErr # NoErr <=>
                  (call[c].closeFail[1] \/ call[c].closeFail[2])
            /\ sm.SecretManagerClient \notin openClients
            /\ sm.gClient \notin openHelpers

-----------------------------------------------------------------------------
(***************************************************************************)
(* The steps of Generate, in SpecACR.                                      *)
(***************************************************************************)
\* Generate got past the spec and the cluster configuration, to the choice
\* of the way of authenticating.
ReachedAuth == Generated /\ credIn.spec = "ok" /\ credIn.fails # "GetConfig"

\* The way of authenticating an effect belongs to, "" for the effects that
\* belong to none.
StrategyOf(e) ==
    IF e.arg \in {"Secret", "ServicePrincipal"} THEN "ServicePrincipal"
    ELSE IF e.arg = "ManagedIdentity" THEN "ManagedIdentity"
    ELSE IF e.op \in {"Getenv", "ReadFile", "NewTokenProvider", "FetchSAToken",
                      "crClient.Get"}
    THEN "WorkloadIdentity"
    ELSE ""
StrategiesUsed(run) ==
    {StrategyOf(run.effects[i]) : i \in DOMAIN run.effects} \ {""}
FirstConfigured(auth) ==
    IF "ServicePrincipal" \in auth THEN "ServicePrincipal"
    ELSE IF "ManagedIdentity" \in auth THEN "ManagedIdentity"
    ELSE "WorkloadIdentity"
Exchanges(run) == Did(run, {"POST /oauth2/exchange", "POST /oauth2/token"})

\* C25: Generate obtains the AAD access token from exactly one strategy,
\* the first configured in the order service principal, managed identity,
\* workload identity; when no strategy is configured it returns an error
\* and posts no token-exchange request to the registry.
C25_StrategySelection ==
    ReachedAuth =>
      \A aad \in AADTokens :
        IF credIn.auth # {}
        THEN StrategiesUsed(credOut[aad]) = {FirstConfigured(credIn.auth)}
        ELSE /\ credOut[aad].err # NoErr
             /\ Exchanges(credOut[aad]) = {}

RefreshExchanges(run) == Did(run, {"POST /oauth2/exchange"})
AccessExchanges(run) == Did(run, {"POST /oauth2/token"})
ExchangeFailures == {"exchange", "exchangeNoField"}
TokenFailures == {"token", "tokenNoField"}

\* The exchanges of a run come in order, the access-token exchange only
\* after a refresh-token exchange that succeeded and only with a scope;
\* a result is returned only if every step performed succeeded, and it
\* holds the fixed user and the token of the last exchange; a nil spec
\* fails before anything is done.
ExchangeOrder(run) ==
    /\ AccessExchanges(run) # {} =>
          /\ credIn.scope # ""
          /\ credIn.fails \notin ExchangeFailures
          /\ \E i \in RefreshExchanges(run) :
                \A j \in AccessExchanges(run) : i < j
    /\ run.err = NoErr =>
          /\ credIn.fails \notin ExchangeFailures
          /\ credIn.scope # "" => credIn.fails \notin TokenFailures
          /\ Cardinality(RefreshExchanges(run)) = 1
          /\ Cardinality(AccessExchanges(run)) =
                (IF credIn.scope # "" THEN 1 ELSE 0)
          /\ run.result =
                [user |-> ACRUser,
                 token |-> IF credIn.scope # "" THEN "acr-access-token"
                           ELSE "acr-refresh-token"]
    /\ run.err # NoErr => run.result = NoResult
    /\ credIn.spec = "nil" => run.err = errNoSpec /\ run.effects = <<>>

\* C26: Generate performs the refresh-token exchange only after an AAD
\* access token was obtained without error: a strategy has run and the
\* token it returned is the one exchanged.  It performs the access-token
\* exchange only after a successful refresh-token exchange and only when a
\* scope is set; it returns a result only if every performed step
\* succeeded, and then the result holds the fixed user and as token the
\* ACR access token when a scope is set, otherwise the ACR refresh token;
\* a nil spec fails before any I/O.
C26_ExchangeProtocol ==
    Generated =>
      \A aad \in AADTokens :
        /\ \A i \in RefreshExchanges(credOut[aad]) :
              /\ StrategiesUsed(credOut[aad]) # {}
              /\ credOut[aad].effects[i].arg = aad
        /\ ExchangeOrder(credOut[aad])

====
